---- MODULE Spec2Model ----
\* Checkout-session reconciliation of the Maison Marcelina backend:
\* services/stripe_checkout.py (order derivation, storage upsert, sync,
\* webhook handling) and api/checkout.py (endpoints, error mapping).
\*
\* Strings whose characters the code inspects (session ids, order numbers,
\* currencies, UUIDs) are sequences of one-character strings.  Python's None
\* is NoneStr for text fields and a tagged record for JSON numbers.
EXTENDS Integers, Sequences, FiniteSets, Bags, TLC

VARIABLES rows, inflight, last, lastSrc, call, held

vars == <<rows, inflight, last, lastSrc, call, held>>

\* ------------------------------------------------------------------ bounds
\* Distinct readings of the wall clock (datetime.now) a derivation can see.
MaxNow == 2
\* Requests that have derived an order and not yet reached storage.
MaxInflight == 2

\* --------------------------------------------------------------- constants
OrderSuffixLen == 12
UuidLen == 36
CurrencyLen == 3

NoneStr == "<None>"

\* ------------------------------------------------------------- characters
LowerLetters == <<"a", "b", "c", "d", "e", "f", "g", "h", "i", "j", "k", "l", "m", "n", "o", "p", "q", "r", "s", "t", "u", "v", "w", "x", "y", "z">>

UpperLetters == <<"A", "B", "C", "D", "E", "F", "G", "H", "I", "J", "K", "L", "M", "N", "O", "P", "Q", "R", "S", "T", "U", "V", "W", "X", "Y", "Z">>

Digits == {"0", "1", "2", "3", "4", "5", "6", "7", "8", "9"}

HexLetters == {"a", "b", "c", "d", "e", "f", "A", "B", "C", "D", "E", "F"}

Range(f) == {f[i] : i \in DOMAIN f}

\* str.upper() on one character.
UpperChar(c) ==
    IF \E i \in DOMAIN LowerLetters : LowerLetters[i] = c
    THEN UpperLetters[CHOOSE i \in DOMAIN LowerLetters : LowerLetters[i] = c]
    ELSE c

Upper(s) == [i \in DOMAIN s |-> UpperChar(s[i])]

IsAlpha(c) == c \in Range(LowerLetters) \cup Range(UpperLetters)

IsHex(c) == c \in Digits \cup HexLetters

RECURSIVE Filter(_, _)
Filter(s, keep) ==
    IF s = << >> THEN << >>
    ELSE (IF Head(s) \in keep THEN <<Head(s)>> ELSE << >>) \o Filter(Tail(s), keep)

\* ------------------------------------------------------------- identities
UserU == "d29f0f6e-45fe-4f90-b957-865c0f478f11"
UserV == "7c9e6679-7425-40de-944b-e07fc1f90ae7"
BadUserId == "11111111-1111-1111-1111-111111111111"

\* The characters of the user-id strings the model uses.
Chars(v) ==
    CASE v = UserU -> <<"d", "2", "9", "f", "0", "f", "6", "e", "-", "4", "5", "f", "e", "-", "4", "f", "9", "0", "-", "b", "9", "5", "7", "-", "8", "6", "5", "c", "0", "f", "4", "7", "8", "f", "1", "1">>
      [] v = UserV -> <<"7", "c", "9", "e", "6", "6", "7", "9", "-", "7", "4", "2", "5", "-", "4", "0", "d", "e", "-", "9", "4", "4", "b", "-", "e", "0", "7", "f", "c", "1", "f", "9", "0", "a", "e", "7">>
      [] v = BadUserId -> <<"1", "1", "1", "1", "1", "1", "1", "1", "-", "1", "1", "1", "1", "-", "1", "1", "1", "1", "-", "1", "1", "1", "1", "-", "1", "1", "1", "1", "1", "1", "1", "1", "1", "1", "1", "1">>
      [] OTHER -> << >>

\* _UUID_PATTERN: 8-4-4-4-12 hex digits, version 1-5, variant 8, 9, a or b.
UuidPatternMatches(s) ==
    /\ Len(s) = UuidLen
    /\ \A i \in 1..UuidLen :
         IF i \in {9, 14, 19, 24} THEN s[i] = "-"
         ELSE IF i = 15 THEN s[i] \in {"1", "2", "3", "4", "5"}
         ELSE IF i = 20 THEN s[i] \in {"8", "9", "a", "b", "A", "B"}
         ELSE IsHex(s[i])

_is_valid_uuid(v) == UuidPatternMatches(Chars(v))

\* _normalize_text on a text field: a non-string gives "", a string is stripped.
BlankStrings == {"", " "}

_normalize_text(v) == IF v = NoneStr \/ v \in BlankStrings THEN "" ELSE v

\* str.strip() on a character sequence.
RECURSIVE LStrip(_)
LStrip(s) == IF s # << >> /\ Head(s) = " " THEN LStrip(Tail(s)) ELSE s

RECURSIVE RStrip(_)
RStrip(s) == IF s # << >> /\ s[Len(s)] = " " THEN RStrip(SubSeq(s, 1, Len(s) - 1)) ELSE s

StripSeq(s) == RStrip(LStrip(s))

\* ------------------------------------------------------------ JSON values
JNone == [t |-> "none"]
JInt(n) == [t |-> "int", v |-> n]
\* A float; integral says whether float.is_integer() holds, v is its floor.
JFloat(n, integral) == [t |-> "float", v |-> n, integral |-> integral]
JStr(s) == [t |-> "str", s |-> s]

DigitValue(c) ==
    CASE c = "0" -> 0 [] c = "1" -> 1 [] c = "2" -> 2 [] c = "3" -> 3 [] c = "4" -> 4
      [] c = "5" -> 5 [] c = "6" -> 6 [] c = "7" -> 7 [] c = "8" -> 8 [] c = "9" -> 9

\* str.isdigit(): non-empty and every character a digit.
IsDigitString(s) == s # << >> /\ \A i \in DOMAIN s : s[i] \in Digits

\* int() of a digit string.
RECURSIVE ParseInt(_)
ParseInt(s) ==
    IF s = << >> THEN 0
    ELSE 10 * ParseInt(SubSeq(s, 1, Len(s) - 1)) + DigitValue(s[Len(s)])

\* ------------------------------------------------------------- exceptions
Exc(kind, status) == [kind |-> kind, status |-> status]

ConfigurationError == Exc("Configuration", 500)
\* StripeCheckoutValidationError defaults to status 422.
ValidationError(status) == Exc("Validation", status)
\* StripeCheckoutApiError defaults to status 502.
ApiError(status) == Exc("Api", status)
RetryableError == Exc("Retryable", 503)
AuthError == Exc("Auth", 401)
SignatureError == Exc("Signature", 400)
\* HTTPException raised by the boundary layer itself.
HttpError(status) == Exc("Http", status)

RaiseCheckoutErrorPassThrough(exc) ==
    CASE exc.kind = "Configuration" -> 500
      [] exc.kind = "Auth" -> 401
      [] exc.kind = "Signature" -> 400
      [] exc.kind = "Validation" -> exc.status
      [] exc.kind = "Retryable" -> 503
      [] exc.kind = "Api" -> exc.status
      [] OTHER -> 500

\* _raise_checkout_error: the HTTP status an exception is surfaced with.
_raise_checkout_error(exc) ==
    CASE exc.kind = "Configuration" -> 500
      [] exc.kind = "Auth" -> 401
      [] exc.kind = "Signature" -> 400
      [] exc.kind = "Validation" -> exc.status
      [] exc.kind = "Retryable" -> 503
      [] exc.kind = "Api" -> IF 400 <= exc.status /\ exc.status < 600 THEN exc.status ELSE 502
      [] OTHER -> 500

\* ---------------------------------------------------------------- settings
\* get_settings(): STRIPE_CURRENCY defaults to "eur".
DefaultCurrency == <<"e", "u", "r">>

Settings(webhook_secret) ==
    [stripe_secret_key |-> "sk_test",
     stripe_currency |-> DefaultCurrency,
     stripe_webhook_secret |-> webhook_secret,
     supabase_url |-> "https://project.supabase.co",
     supabase_service_role_key |-> "service-role"]

\* -------------------------------------------------------- order derivation
StoreCode == <<"M", "M", "-">>

AlnumUpper == Range(UpperLetters) \cup Digits

FirstChars(s, n) == IF Len(s) > n THEN SubSeq(s, 1, n) ELSE s

\* cleaned[-12:] if len(cleaned) > 12 else cleaned
LastChars(s, n) == IF Len(s) > n THEN SubSeq(s, Len(s) - n + 1, Len(s)) ELSE s

\* _build_order_number: << >> stands for the raised validation error.
OrderNumberSuffix(session_id) == LastChars(Filter(Upper(session_id), AlnumUpper), OrderSuffixLen)

_build_order_number(session_id) ==
    IF OrderNumberSuffix(session_id) = << >> THEN << >>
    ELSE StoreCode \o OrderNumberSuffix(session_id)

InitialStatus == "En preparation"

\* Decimal(cents) / Decimal(100) quantized to 0.01: units and hundredths.
TotalAmount(cents) == [units |-> cents \div 100, hundredths |-> cents % 100]

\* The user id _build_confirmed_order attributes the order to ("" if none).
RawUserIdFallbackFirst(session, fallback_user_id) ==
    IF _normalize_text(fallback_user_id) # ""
    THEN _normalize_text(fallback_user_id)
    ELSE IF _normalize_text(session.client_reference_id) # ""
    THEN _normalize_text(session.client_reference_id)
    ELSE _normalize_text(session.metadata.user_id)

RawUserId(session, fallback_user_id) ==
    IF _normalize_text(session.client_reference_id) # ""
    THEN _normalize_text(session.client_reference_id)
    ELSE IF _normalize_text(session.metadata.user_id) # ""
    THEN _normalize_text(session.metadata.user_id)
    ELSE _normalize_text(fallback_user_id)

AmountAcceptsFractional(a) == a.t \in {"int", "float"} /\ a.v >= 0

AmountIsValid(a) ==
    /\ \/ a.t = "int"
       \/ a.t = "float" /\ a.integral
    /\ a.v >= 0

Currency(settings, session) ==
    IF /\ Len(Upper(StripSeq(session.currency))) = CurrencyLen
       /\ \A i \in 1..CurrencyLen : IsAlpha(Upper(StripSeq(session.currency))[i])
    THEN Upper(StripSeq(session.currency))
    ELSE Upper(settings.stripe_currency)

RawItemsCount(c) ==
    IF c.t = "int" THEN c.v
    ELSE IF c.t = "str" /\ IsDigitString(StripSeq(c.s)) THEN ParseInt(StripSeq(c.s))
    ELSE 1

ItemsCountUnchecked(c) == RawItemsCount(c)

ItemsCount(c) == IF RawItemsCount(c) <= 0 THEN 1 ELSE RawItemsCount(c)

OrderedAtAlwaysNow(session, now) == now

OrderedAt(session, now) ==
    IF session.created.t = "int" /\ session.created.v > 0
    THEN session.created.v
    ELSE now

Raise(exc) == [tag |-> "raise", exc |-> exc]

\* _build_confirmed_order: an order, "none", or a raised validation error.
_build_confirmed_order(settings, session, fallback_user_id, now) ==
    IF StripSeq(session.id) = << >> THEN Raise(ValidationError(400))
    ELSE IF \/ RawUserId(session, fallback_user_id) = ""
            \/ ~_is_valid_uuid(RawUserId(session, fallback_user_id))
    THEN [tag |-> "none"]
    ELSE IF ~AmountIsValid(session.amount_total) THEN Raise(ValidationError(400))
    ELSE IF _build_order_number(StripSeq(session.id)) = << >> THEN Raise(ValidationError(400))
    ELSE [tag |-> "order",
          order |-> [order_number |-> _build_order_number(StripSeq(session.id)),
                     user_id |-> RawUserId(session, fallback_user_id),
                     status |-> InitialStatus,
                     total_amount |-> TotalAmount(session.amount_total.v),
                     currency |-> Currency(settings, session),
                     items_count |-> ItemsCount(session.metadata.items_count),
                     ordered_at |-> OrderedAt(session, now)]]

\* ------------------------------------------------- payment gateway sessions
\* The sessions the gateway holds.  A was created for the signed-in customer
\* UserU; B is a guest session whose payload carries no creation timestamp.
SessionKeys == {"A", "B"}

SessionId(k) ==
    CASE k = "A" -> <<"c", "s", "_", "t", "e", "s", "t", "_", "A", "b", "C", "1", "2", "3", "!", "!">>
      [] k = "B" -> <<"c", "s", "_", "t", "e", "s", "t", "_", "a", "b", "c", "1", "2", "3">>

UnknownSessionId == <<"c", "s", "_", "x">>
BlankSessionId == <<" ">>

\* payment_status the gateway reports while the session is not settled.
OpenStatus(k) ==
    CASE k = "A" -> "unpaid"
      [] k = "B" -> NoneStr

\* The session payload as the gateway serialises it.
SessionPayload(k, payment_status) ==
    CASE k = "A" ->
           [id |-> SessionId(k), client_reference_id |-> UserU,
            metadata |-> [user_id |-> UserU, items_count |-> JStr(<<"3">>)],
            amount_total |-> JInt(14997), currency |-> <<"e", "u", "r">>,
            created |-> JInt(1), payment_status |-> payment_status]
      [] k = "B" ->
           [id |-> SessionId(k), client_reference_id |-> NoneStr,
            metadata |-> [user_id |-> NoneStr, items_count |-> JNone],
            amount_total |-> JInt(4999), currency |-> << >>,
            created |-> JNone, payment_status |-> payment_status]

PaymentStatuses(k) == {"paid", OpenStatus(k)}

\* _normalize_text(session.get("payment_status")).lower(); the gateway's
\* status values are lower-case already.
NormalizedPaymentStatus(session) == _normalize_text(session.payment_status)

\* ------------------------------------------------------------------ traces
NoOrderNumber == << >>

Response(status, kind) ==
    [status |-> status, kind |-> kind, payment_status |-> "",
     order_recorded |-> FALSE, order_number |-> NoOrderNumber, received |-> FALSE]

NoResponse == Response(0, "none")

\* What is known of one request: its inputs as the handler saw them, what the
\* handler did, and the response.
EmptyTrace ==
    [endpoint |-> "none", session |-> "", expected |-> "", payment_status |-> "",
     etype |-> "", genuine |-> FALSE, verify |-> "", handled |-> FALSE,
     derived |-> {}, wrote |-> FALSE, replaced |-> {}, replaced_src |-> "",
     response |-> NoResponse]

ErrorResponse(exc) ==
    Response(IF exc.kind = "Http" THEN exc.status ELSE _raise_checkout_error(exc), exc.kind)

\* The gateway session a payload belongs to.
KeyOf(session) == CHOOSE k \in SessionKeys : SessionId(k) = session.id

\* ----------------------------------------------------- customer resolution
NoHeader == [present |-> FALSE, scheme |-> "", sep |-> "", token |-> ""]
\* A header value by the parts str.partition(" ") gives for it: the text before
\* the first blank, the blank, the text after it.
Header(scheme, token) == [present |-> TRUE, scheme |-> scheme, sep |-> " ", token |-> token]
\* A header value without a blank.
HeaderWord(word) == [present |-> TRUE, scheme |-> word, sep |-> "", token |-> ""]

AuthorizationHeaders == {NoHeader, Header("Basic", "abc"), Header("Bearer", ""), Header("Bearer", "access-token")}

\* str.lower() of the scheme words the model uses.
LowerWord(word) ==
    CASE word \in {"Bearer", "BEARER"} -> "bearer"
      [] word = "Basic" -> "basic"
      [] OTHER -> word

ExtractTokenLenient(authorization) ==
    IF \/ ~authorization.present
       \/ LowerWord(authorization.scheme) # "bearer"
       \/ _normalize_text(authorization.token) = ""
    THEN [tag |-> "token", token |-> ""]
    ELSE [tag |-> "token", token |-> _normalize_text(authorization.token)]

\* _extract_optional_access_token: "" for no credential.
_extract_optional_access_token(authorization) ==
    IF \/ ~authorization.present
       \/ authorization.scheme = "" /\ authorization.sep = "" /\ authorization.token = ""
    THEN [tag |-> "token", token |-> ""]
    ELSE IF LowerWord(authorization.scheme) # "bearer" \/ _normalize_text(authorization.token) = ""
    THEN Raise(HttpError(401))
    ELSE [tag |-> "token", token |-> _normalize_text(authorization.token)]

\* Replies of the identity service: status 0 is a transport failure.
IdentityReply(status, id) == [status |-> status, id |-> id]

IdentityReplies ==
    {IdentityReply(200, UserU), IdentityReply(200, UserV), IdentityReply(200, BadUserId),
     IdentityReply(401, NoneStr), IdentityReply(0, NoneStr)}

ResolveCustomerOrGuest(reply) ==
    IF \/ reply.status = 0
       \/ reply.status >= 400
       \/ _normalize_text(reply.id) = ""
       \/ ~_is_valid_uuid(_normalize_text(reply.id))
    THEN [tag |-> "customer", user_id |-> NoneStr]
    ELSE [tag |-> "customer", user_id |-> _normalize_text(reply.id)]

\* resolve_authenticated_checkout_customer with _request_authenticated_user.
resolve_authenticated_checkout_customer(reply) ==
    IF reply.status = 0 THEN Raise(RetryableError)
    ELSE IF reply.status \in {401, 403} THEN Raise(AuthError)
    ELSE IF reply.status >= 400 THEN Raise(ApiError(reply.status))
    ELSE IF _normalize_text(reply.id) = "" \/ ~_is_valid_uuid(_normalize_text(reply.id))
    THEN Raise(ApiError(502))
    ELSE [tag |-> "customer", user_id |-> _normalize_text(reply.id)]

\* ---------------------------------------------------------------- gateway
GatewayError(code) == [tag |-> "error", code |-> code]

\* What Session.retrieve can answer for a session id.
GatewayReplies(session_id) ==
    IF \E k \in SessionKeys : SessionId(k) = session_id
    THEN UNION {{[tag |-> "session", session |-> SessionPayload(k, ps)] : ps \in PaymentStatuses(k)} :
                   k \in {j \in SessionKeys : SessionId(j) = session_id}}
         \cup {GatewayError("connection")}
    ELSE {GatewayError("resource_missing")}

\* _retrieve_checkout_session
_retrieve_checkout_session(settings, session_id, reply) ==
    IF StripSeq(session_id) = << >> THEN Raise(ValidationError(422))
    ELSE IF settings.stripe_secret_key = "" THEN Raise(ConfigurationError)
    ELSE IF reply.tag = "session" THEN reply
    ELSE IF reply.code = "resource_missing" THEN Raise(ValidationError(404))
    ELSE IF reply.code = "connection" THEN Raise(RetryableError)
    ELSE IF reply.code = "authentication" THEN Raise(ConfigurationError)
    ELSE Raise(ApiError(502))

\* --------------------------------------------------------------- outcomes
\* What a service call came to before any storage write: it returned a body,
\* raised, or derived an order that is to be upserted.
Outcome(tag) ==
    [tag |-> tag, exc |-> Exc("", 0), session |-> "", payment_status |-> "",
     derived |-> {}]

Raised(exc, base) == [base EXCEPT !.tag = "raise", !.exc = exc]

\* Whether sync takes the retrieved session as settled.
SyncIsSettledAlways(payment_status) == TRUE

SyncIsSettled(payment_status) == payment_status = "paid"

\* Whether sync refuses the order as belonging to another account.
UserMismatchNever(expected, order) == FALSE

UserMismatch(expected, order) == expected # "" /\ order.user_id # expected

\* sync_checkout_session_order up to the call of _upsert_confirmed_order.
SyncPaidOutcomeNoneRaises(settings, session, expected, now, base) ==
    LET built == _build_confirmed_order(settings, session,
                                        IF expected # "" THEN expected ELSE NoneStr, now)
    IN  IF built.tag = "raise" THEN Raised(built.exc, base)
        ELSE IF built.tag = "none" THEN Raised(ValidationError(404), base)
        ELSE IF UserMismatch(expected, built.order)
        THEN Raised(AuthError, [base EXCEPT !.derived = {built.order}])
        ELSE [base EXCEPT !.tag = "upsert", !.derived = {built.order}]

SyncPaidOutcome(settings, session, expected, now, base) ==
    LET built == _build_confirmed_order(settings, session,
                                        IF expected # "" THEN expected ELSE NoneStr, now)
    IN  IF built.tag = "raise" THEN Raised(built.exc, base)
        ELSE IF built.tag = "none" THEN [base EXCEPT !.tag = "return"]
        ELSE IF UserMismatch(expected, built.order)
        THEN Raised(AuthError, [base EXCEPT !.derived = {built.order}])
        ELSE [base EXCEPT !.tag = "upsert", !.derived = {built.order}]

sync_checkout_session_order(settings, session_id, expected_user_id, reply, now) ==
    LET expected == _normalize_text(expected_user_id)
        retrieved == _retrieve_checkout_session(settings, session_id, reply)
    IN  IF expected # "" /\ ~_is_valid_uuid(expected)
        THEN Raised(ValidationError(422), Outcome("raise"))
        ELSE IF retrieved.tag = "raise" THEN Raised(retrieved.exc, Outcome("raise"))
        ELSE LET session == retrieved.session
                 base == [Outcome("return") EXCEPT
                            !.session = KeyOf(session),
                            !.payment_status = NormalizedPaymentStatus(session)]
             IN  IF ~SyncIsSettled(NormalizedPaymentStatus(session)) THEN base
                 ELSE SyncPaidOutcome(settings, session, expected, now, base)

\* ---------------------------------------------------------------- webhook
CompletedType == "checkout.session.completed"
AsyncSucceededType == "checkout.session.async_payment_succeeded"
SettlementTypes == {CompletedType, AsyncSucceededType}
EventTypes == SettlementTypes \cup {"payment_intent.succeeded"}

\* A delivery: the raw body (garbage, a JSON value that is no event object, or
\* an event) and the Stripe-Signature header with whether it signs the body.
NotADict == [tag |-> "other"]
DictObject(session) == [tag |-> "dict", session |-> session]

Event(type, object) == [parse |-> "event", type |-> type, object |-> object]

\* payment_status values a delivered session snapshot can carry.
SnapshotStatuses(k) == {"paid", OpenStatus(k)}

WebhookObjects ==
    {NotADict} \cup
    UNION {{DictObject(SessionPayload(k, ps)) : ps \in SnapshotStatuses(k)} : k \in SessionKeys}

WebhookPayloads ==
    {[parse |-> "invalid_json", type |-> "", object |-> NotADict],
     [parse |-> "not_event", type |-> "", object |-> NotADict]}
    \cup {Event(type, object) : type \in EventTypes, object \in WebhookObjects}

GoodSignature == "t=1,v1=good"
SignatureHeaders == {NoneStr, " ", "t=1,v1=bad", GoodSignature}
WebhookSecrets == {"", "whsec_test"}

\* verify_and_parse_stripe_webhook_event: "ok" or the reason of the failure.
VerifyFailOpen(settings, payload, stripe_signature) ==
    IF settings.stripe_webhook_secret = "" THEN "no_secret"
    ELSE IF payload.parse = "invalid_json" THEN "bad_payload"
    ELSE IF payload.parse = "not_event" THEN "bad_event"
    ELSE "ok"

VerifyReason(settings, payload, stripe_signature) ==
    IF settings.stripe_webhook_secret = "" THEN "no_secret"
    ELSE IF _normalize_text(stripe_signature) = "" THEN "no_signature"
    ELSE IF _normalize_text(stripe_signature) # GoodSignature THEN "bad_signature"
    ELSE IF payload.parse = "invalid_json" THEN "bad_payload"
    ELSE IF payload.parse = "not_event" THEN "bad_event"
    ELSE "ok"

VerifyException(reason) ==
    CASE reason = "no_secret" -> ConfigurationError
      [] reason \in {"no_signature", "bad_signature", "bad_payload"} -> SignatureError
      [] reason = "bad_event" -> ApiError(400)

\* Whether handle_stripe_webhook_event reconciles events of this type.
IsSettlementTypeAny(event_type) == TRUE

IsSettlementType(event_type) == event_type \in SettlementTypes

\* Whether the handler re-checks payment_status of the nested session.
RechecksPaymentStatusAlways(event_type) == TRUE

RechecksPaymentStatusNever(event_type) == FALSE

RechecksPaymentStatus(event_type) == event_type = CompletedType

\* handle_stripe_webhook_event up to the call of _upsert_confirmed_order.
HandlePaidOutcome(settings, session, now, base) ==
    LET built == _build_confirmed_order(settings, session, NoneStr, now)
    IN  IF built.tag = "raise" THEN Raised(built.exc, base)
        ELSE IF built.tag = "none" THEN base
        ELSE [base EXCEPT !.tag = "upsert", !.derived = {built.order}]

handle_stripe_webhook_event(settings, event, now) ==
    IF ~IsSettlementType(_normalize_text(event.type)) THEN Outcome("return")
    ELSE IF event.object.tag # "dict" THEN Raised(ValidationError(400), Outcome("raise"))
    ELSE LET session == event.object.session
             base == [Outcome("return") EXCEPT
                        !.session = KeyOf(session),
                        !.payment_status = NormalizedPaymentStatus(session)]
         IN  IF /\ RechecksPaymentStatus(_normalize_text(event.type))
                /\ NormalizedPaymentStatus(session) # "paid"
             THEN base
             ELSE HandlePaidOutcome(settings, session, now, base)

\* ---------------------------------------------------------------- storage
\* customer_orders: rows with a generated id and the columns of the order.
Row(id, order) ==
    [id |-> id, order_number |-> order.order_number, user_id |-> order.user_id,
     status |-> order.status, total_amount |-> order.total_amount,
     currency |-> order.currency, items_count |-> order.items_count,
     ordered_at |-> order.ordered_at]

Columns(row) ==
    [order_number |-> row.order_number, user_id |-> row.user_id,
     status |-> row.status, total_amount |-> row.total_amount,
     currency |-> row.currency, items_count |-> row.items_count,
     ordered_at |-> row.ordered_at]

Max(S) == CHOOSE x \in S : \A y \in S : y <= x

NextRowId(table) == IF table = {} THEN 1 ELSE 1 + Max({r.id : r \in table})

Conflicting(table, order) == {r \in table : r.order_number = order.order_number}

\* POST with on_conflict=order_number and resolution=merge-duplicates, as one
\* atomic statement: the conflicting row takes the posted columns and keeps
\* its id, otherwise a row is inserted.
InsertAlways(table, order) == table \cup {Row(NextRowId(table), order)}

MergeDuplicatesDeleting(table, order) ==
    IF Conflicting(table, order) = {}
    THEN table \cup {Row(NextRowId(table), order)}
    ELSE table \ Conflicting(table, order)

MergeDuplicates(table, order) ==
    IF Conflicting(table, order) = {}
    THEN table \cup {Row(NextRowId(table), order)}
    ELSE (table \ Conflicting(table, order))
         \cup {Row(r.id, order) : r \in Conflicting(table, order)}

\* Replies of the storage service to the write: the written row, a transport
\* failure, or an empty row list.
StorageReplies == {"written", "network_error", "empty_result"}

\* What _upsert_confirmed_order raises on a reply other than the written row.
UpsertException(reply) ==
    IF reply = "network_error" THEN RetryableError ELSE ApiError(502)

\* ---------------------------------------------------------------- requests
TheOrder(t) == CHOOSE o \in t.derived : TRUE

SyncBody(payment_status, order_recorded, order_number) ==
    [Response(200, "ok") EXCEPT
       !.payment_status = payment_status,
       !.order_recorded = order_recorded,
       !.order_number = order_number]

\* The trace of a service outcome at the boundary layer; a request whose order
\* is still to be written has no response yet.  The expected user id is kept
\* for the requests that got as far as a session.
TraceOf(endpoint, expected, out, returned) ==
    [EmptyTrace EXCEPT
       !.endpoint = endpoint, !.session = out.session,
       !.expected = IF out.session = "" THEN "" ELSE expected,
       !.payment_status = out.payment_status, !.derived = out.derived,
       !.response = IF out.tag = "raise" THEN ErrorResponse(out.exc)
                    ELSE IF out.tag = "return" THEN returned
                    ELSE NoResponse]

SyncRequests ==
    {[authorization |-> h, identity |-> i, session_id |-> sid, now |-> n] :
        h \in AuthorizationHeaders, i \in IdentityReplies,
        sid \in {SessionId(k) : k \in SessionKeys} \cup {UnknownSessionId, BlankSessionId},
        n \in 1..MaxNow}

\* checkout_session_sync, given the gateway's reply to the retrieval.
checkout_session_sync(req, reply) ==
    LET token == _extract_optional_access_token(req.authorization)
        customer == resolve_authenticated_checkout_customer(req.identity)
    IN  IF token.tag = "raise"
        THEN [EmptyTrace EXCEPT !.endpoint = "sync", !.response = ErrorResponse(token.exc)]
        ELSE IF token.token # "" /\ customer.tag = "raise"
        THEN [EmptyTrace EXCEPT !.endpoint = "sync", !.response = ErrorResponse(customer.exc)]
        ELSE LET user_id == IF token.token # "" THEN customer.user_id ELSE NoneStr
                 out == sync_checkout_session_order(Settings("whsec_test"), req.session_id,
                                                    user_id, reply, req.now)
             IN  TraceOf("sync", _normalize_text(user_id), out,
                         SyncBody(IF out.payment_status # "" THEN out.payment_status ELSE "unknown",
                                  FALSE, NoOrderNumber))

SyncTraces ==
    UNION {{checkout_session_sync(req, reply) : reply \in GatewayReplies(req.session_id)} :
              req \in SyncRequests}

WebhookDeliveries ==
    {[secret |-> sec, stripe_signature |-> sig, payload |-> p, now |-> n] :
        sec \in WebhookSecrets, sig \in SignatureHeaders, p \in WebhookPayloads, n \in 1..MaxNow}

Received == [Response(200, "ok") EXCEPT !.received = TRUE]

\* The delivery is an event signed by the gateway with the configured secret.
Genuine(d) ==
    /\ d.secret # ""
    /\ d.stripe_signature = GoodSignature
    /\ d.payload.parse = "event"

\* checkout_stripe_webhook
checkout_stripe_webhook(d) ==
    LET settings == Settings(d.secret)
        reason == VerifyReason(settings, d.payload, d.stripe_signature)
    IN  IF reason # "ok"
        THEN [EmptyTrace EXCEPT
                !.endpoint = "webhook", !.verify = reason,
                !.genuine = Genuine(d),
                !.response = ErrorResponse(VerifyException(reason))]
        ELSE [TraceOf("webhook", "",
                      handle_stripe_webhook_event(settings, d.payload, d.now), Received)
                EXCEPT !.verify = "ok", !.handled = TRUE, !.etype = d.payload.type,
                       !.genuine = Genuine(d)]

WebhookTraces == {checkout_stripe_webhook(d) : d \in WebhookDeliveries}

Pending(t) == t.response = NoResponse

\* ------------------------------------------------------------------ state
OrderNumbers == {_build_order_number(SessionId(k)) : k \in SessionKeys}

\* No function is being applied on its own.
NoCall == [op |-> "none"]

Init ==
    /\ rows = {}
    /\ inflight = EmptyBag
    /\ last = EmptyTrace
    /\ lastSrc = [on \in OrderNumbers |-> ""]
    /\ call = NoCall
    /\ held = << >>

\* rows: the customer_orders table.  inflight: the requests whose derived order
\* is on its way to storage.  last: the request that completed last.  lastSrc:
\* for each order number, the session whose reconciliation wrote its row last.
\* call: a function applied on its own, with its arguments and its result.
\* held: the checkout sessions Session.create has made gateway-side.
\*
\* A request runs up to its response, or up to the point where its order is
\* handed to the storage service.
Admit(t) ==
    IF Pending(t)
    THEN /\ BagCardinality(inflight) < MaxInflight
         /\ inflight' = inflight (+) SetToBag({t})
         /\ UNCHANGED last
    ELSE /\ last' = t
         /\ UNCHANGED inflight

CheckoutSessionSync ==
    \E t \in SyncTraces :
        /\ Admit(t)
        /\ UNCHANGED <<rows, lastSrc, call, held>>

CheckoutStripeWebhook ==
    \E t \in WebhookTraces :
        /\ Admit(t)
        /\ UNCHANGED <<rows, lastSrc, call, held>>

\* The response of a request whose order was handed to storage, by the reply
\* of the storage service.
UpsertResponseOptimistic(t, reply) ==
    IF t.endpoint = "sync"
    THEN SyncBody("paid", TRUE, TheOrder(t).order_number)
    ELSE Received

UpsertResponseAcknowledging(t, reply) ==
    IF t.endpoint = "webhook" THEN Received
    ELSE IF reply # "written" THEN ErrorResponse(UpsertException(reply))
    ELSE SyncBody("paid", TRUE, TheOrder(t).order_number)

UpsertResponseUnchecked(t, reply) ==
    IF reply = "network_error" THEN ErrorResponse(UpsertException(reply))
    ELSE IF t.endpoint = "sync"
    THEN SyncBody("paid", TRUE, TheOrder(t).order_number)
    ELSE Received

UpsertResponse(t, reply) ==
    IF reply # "written" THEN ErrorResponse(UpsertException(reply))
    ELSE IF t.endpoint = "sync"
    THEN SyncBody("paid", TRUE, TheOrder(t).order_number)
    ELSE Received

\* _upsert_confirmed_order and the rest of the handler after it.
Upsert(t, reply) ==
    LET order == TheOrder(t)
        old == Conflicting(rows, order)
    IN  /\ inflight' = inflight (-) SetToBag({t})
        /\ UNCHANGED <<call, held>>
        /\ IF reply = "written"
           THEN /\ rows' = MergeDuplicates(rows, order)
                /\ lastSrc' = [lastSrc EXCEPT ![order.order_number] = t.session]
                /\ last' = [t EXCEPT
                              !.wrote = TRUE,
                              !.replaced = old,
                              !.replaced_src = IF old = {} THEN ""
                                               ELSE lastSrc[order.order_number],
                              !.response = UpsertResponse(t, reply)]
           ELSE /\ last' = [t EXCEPT !.response = UpsertResponse(t, reply)]
                /\ UNCHANGED <<rows, lastSrc>>

UpsertConfirmedOrder ==
    \E t \in BagToSet(inflight), reply \in StorageReplies : Upsert(t, reply)

Next ==
    \/ CheckoutSessionSync
    \/ CheckoutStripeWebhook
    \/ UpsertConfirmedOrder

Spec == Init /\ [][Next]_vars

\* ------------------------------------------- order derivation on its own
\* The result of a call that has not been made yet.
NotCalled == [tag |-> "pending"]

\* What client_reference_id and metadata.user_id of a payload can carry.
UserIdTexts == {NoneStr, " ", UserU, UserV, BadUserId}

\* The fallback of the caller: none from the webhook handler, the resolved
\* customer from sync.
FallbackUserIds == {NoneStr, UserU, UserV}

DeriveSessions ==
    {[SessionPayload("A", "paid") EXCEPT
        !.client_reference_id = c, !.metadata.user_id = m, !.amount_total = a] :
        c \in UserIdTexts, m \in UserIdTexts, a \in {JInt(14997), JNone}}

DeriveCalls ==
    {[op |-> "_build_confirmed_order", session |-> s, fallback_user_id |-> f,
      now |-> n, result |-> NotCalled] :
        s \in DeriveSessions, f \in FallbackUserIds, n \in 1..MaxNow}

\* Session ids: the cleaned id has exactly 12 characters, 13, many more, fewer,
\* fewer with blanks around the id, none, and the id is blank.
PayloadSessionIds ==
    {SessionId("A"),
     <<"c", "s", "_", "t", "e", "s", "t", "_", "A", "b", "C", "1", "2", "3", "4">>,
     <<"c", "s", "_", "l", "i", "v", "e", "_", "a", "1", "B", "2", "c", "3", "D", "4", "e", "5",
       "F", "6", "g", "7", "H", "8">>,
     <<"c", "s", "_", "1">>,
     <<" ", "c", "s", "_", "1", " ">>,
     <<"_", "_", "!", "!">>,
     BlankSessionId}

\* amount_total: minor units, zero, a negative count, integral and fractional
\* floats, a missing value, a text.
PayloadAmounts ==
    {JInt(14997), JInt(5), JInt(0), JInt(-1), JFloat(5000, TRUE), JFloat(-3, TRUE),
     JFloat(14997, FALSE), JNone, JStr(<<"1", "0", "0">>)}

PayloadCurrencies ==
    {<<"e", "u", "r">>, <<" ", "u", "s", "d", " ">>, <<"G", "B", "P">>, <<"u", "s">>,
     <<"u", "5", "d">>, <<"e", "u", "r", "o">>, << >>}

\* metadata items_count: what create_checkout_session writes, and what it
\* does not.
PayloadItemsCounts ==
    {JStr(<<"3">>), JStr(<<" ", "1", "2", " ">>), JStr(<<"0">>), JStr(<<"-", "2">>),
     JStr(<<"a", "b", "c">>), JStr(<< >>), JInt(4), JInt(0), JInt(-2), JFloat(2, TRUE), JNone}

PayloadSessions ==
    {[SessionPayload("A", "paid") EXCEPT
        !.id = sid, !.client_reference_id = c, !.metadata.user_id = c, !.amount_total = a] :
        sid \in PayloadSessionIds, c \in {UserU, NoneStr}, a \in PayloadAmounts}
    \cup {[SessionPayload("A", "paid") EXCEPT
             !.currency = cur, !.metadata.items_count = ic, !.amount_total = a] :
             cur \in PayloadCurrencies, ic \in PayloadItemsCounts,
             a \in {JInt(14997), JInt(0)}}

PayloadCalls ==
    {[op |-> "_build_confirmed_order", session |-> s, fallback_user_id |-> f,
      now |-> n, result |-> NotCalled] :
        s \in PayloadSessions, f \in FallbackUserIds, n \in 1..MaxNow}

DeriveInit ==
    /\ rows = {}
    /\ inflight = EmptyBag
    /\ last = EmptyTrace
    /\ lastSrc = [on \in OrderNumbers |-> ""]
    /\ call \in DeriveCalls \cup PayloadCalls
    /\ held = << >>

BuildConfirmedOrder ==
    /\ call.op = "_build_confirmed_order"
    /\ call.result = NotCalled
    /\ call' = [call EXCEPT
                  !.result = _build_confirmed_order(Settings("whsec_test"), call.session,
                                                    call.fallback_user_id, call.now)]
    /\ UNCHANGED <<rows, inflight, last, lastSrc, held>>

\* _upsert_confirmed_order of the derived order.
UpsertDerivedOrder ==
    /\ call.op = "_build_confirmed_order"
    /\ call.result # NotCalled
    /\ call.result.tag = "order"
    /\ rows' = MergeDuplicates(rows, call.result.order)
    /\ UNCHANGED <<inflight, last, lastSrc, call, held>>

DeriveNext ==
    \/ BuildConfirmedOrder
    \/ UpsertDerivedOrder

DeriveSpec == DeriveInit /\ [][DeriveNext]_vars

\* ------------------------------------------------------- session creation
\* Limits of the request schema and of the cart normalizer.
MaxCartLines == 50
MaxQuantity == 20
MaxProductIdLen == 120
MaxSizeLen == 40
MaxIdempotencyKeyLen == 255

\* Cart lines a call is given, and thousandths of a currency unit a raw price
\* ranges over.
MaxLines == 3
MaxPriceThousandths == 30

\* None where the value is otherwise a character sequence.
NoneSeq == <<NoneStr>>

\* An exception with its message.
RaiseWith(exc, message) == [tag |-> "raise", exc |-> exc, message |-> message]

CheckoutCartItem(product_id, quantity, size) ==
    [product_id |-> product_id, quantity |-> quantity, size |-> size]

NormalizeSizeNoTrim(value) == IF value = NoneSeq \/ value = << >> THEN NoneSeq ELSE value

_normalize_size(value) ==
    IF value = NoneSeq THEN NoneSeq
    ELSE IF StripSeq(value) = << >> THEN NoneSeq
    ELSE StripSeq(value)

\* A price as a decimal number of thousandths, a value Decimal cannot parse
\* (None, text), or NaN, which Decimal parses and int() refuses.
Dec(thousandths) == [t |-> "dec", m |-> thousandths]
NotANumber == [t |-> "nan"]

\* quantize(Decimal("0.01"), rounding=ROUND_HALF_UP) times 100.
RoundDown(m) == IF m >= 0 THEN m \div 10 ELSE -((-m) \div 10)

RoundHalfUp(m) == IF m >= 0 THEN (m + 5) \div 10 ELSE -((5 - m) \div 10)

_to_minor_units(raw_price) ==
    IF raw_price.t \notin {"dec", "nan"}
    THEN RaiseWith(ValidationError(502), "Prix produit invalide")
    ELSE IF raw_price.t = "nan" THEN RaiseWith(Exc("ValueError", 500), "")
    ELSE IF RoundHalfUp(raw_price.m) <= 0
    THEN RaiseWith(ValidationError(502), "Prix produit invalide")
    ELSE [tag |-> "amount", unit_amount |-> RoundHalfUp(raw_price.m)]

\* The key a cart line is merged under.
MergeKey(item) ==
    [product_id |-> StripSeq(item.product_id), size |-> _normalize_size(item.size)]

\* merged_quantities[key] = merged_quantities.get(key, 0) + item.quantity, the
\* dict kept as the sequence of its entries in insertion order.
AddQuantityOverwrite(merged, key, quantity) ==
    IF \E i \in DOMAIN merged : merged[i].key = key
    THEN [i \in DOMAIN merged |->
            IF merged[i].key = key THEN [merged[i] EXCEPT !.quantity = quantity]
            ELSE merged[i]]
    ELSE Append(merged, [key |-> key, quantity |-> quantity])

AddQuantityKeepFirst(merged, key, quantity) ==
    IF \E i \in DOMAIN merged : merged[i].key = key
    THEN merged
    ELSE Append(merged, [key |-> key, quantity |-> quantity])

AddQuantity(merged, key, quantity) ==
    IF \E i \in DOMAIN merged : merged[i].key = key
    THEN [i \in DOMAIN merged |->
            IF merged[i].key = key THEN [merged[i] EXCEPT !.quantity = @ + quantity]
            ELSE merged[i]]
    ELSE Append(merged, [key |-> key, quantity |-> quantity])

QuantityTooHighNever(quantity) == FALSE

QuantityTooHigh(quantity) == quantity > MaxQuantity

\* The loop of _build_line_items over the cart lines.
RECURSIVE MergeLines(_, _)
MergeLines(items, merged) ==
    IF items = << >> THEN [tag |-> "merged", merged |-> merged]
    ELSE IF StripSeq(Head(items).product_id) = << >>
    THEN RaiseWith(ValidationError(422), "Produit invalide")
    ELSE IF Head(items).quantity <= 0
    THEN RaiseWith(ValidationError(422), "Quantite invalide")
    ELSE IF QuantityTooHigh(Head(items).quantity)
    THEN RaiseWith(ValidationError(422), "Quantite trop elevee")
    ELSE MergeLines(Tail(items),
                    AddQuantity(merged, MergeKey(Head(items)), Head(items).quantity))

CountEntries(entries) == Len(entries)

RECURSIVE SumQuantities(_)
SumQuantities(entries) ==
    IF entries = << >> THEN 0
    ELSE Head(entries).quantity + SumQuantities(Tail(entries))

\* The products table: id, price as get_public_catalog normalises it, and
\* whether the product is active.
Product(id, price, is_active) == [id |-> id, price |-> price, is_active |-> is_active]

\* _list_products with include_inactive=False: the filter is_active=eq.true.
ActiveProductsAll(table) == table

ActiveProducts(table) == {p \in table : p.is_active}

\* _load_active_products on the reply of the catalog service.
_load_active_products(reply) ==
    IF reply.tag = "error" THEN RaiseWith(reply.exc, "catalog")
    ELSE [tag |-> "by_id", products |-> ActiveProducts(reply.table)]

\* The loop of _build_line_items over the merged lines.
RECURSIVE ResolveLines(_, _, _, _)
ResolveLines(settings, merged, products, line_items) ==
    IF merged = << >> THEN [tag |-> "lines", line_items |-> line_items]
    ELSE IF {p \in products : p.id = Head(merged).key.product_id} = {}
    THEN RaiseWith(ValidationError(422), "Produit indisponible")
    ELSE LET product == CHOOSE p \in products : p.id = Head(merged).key.product_id
             amount == _to_minor_units(product.price)
         IN  IF amount.tag = "raise" THEN amount
             ELSE ResolveLines(settings, Tail(merged), products,
                               Append(line_items,
                                      [currency |-> settings.stripe_currency,
                                       unit_amount |-> amount.unit_amount,
                                       product_id |-> Head(merged).key.product_id,
                                       size |-> Head(merged).key.size,
                                       quantity |-> Head(merged).quantity]))

\* What a call of the creation path came to: what it raised or returned, whether
\* it read the catalog, and the requests it sent to the payment gateway.
CreateOutcome ==
    [tag |-> "return", exc |-> Exc("", 0), message |-> "", catalog_read |-> FALSE,
     line_items |-> << >>, items_count |-> 0, requests |-> << >>,
     session_id |-> "", checkout_url |-> ""]

Failed(raised, base) ==
    [base EXCEPT !.tag = "raise", !.exc = raised.exc, !.message = raised.message]

\* _build_line_items
_build_line_items(settings, items, catalog) ==
    LET merging == MergeLines(items, << >>)
        loaded == _load_active_products(catalog)
        read == [CreateOutcome EXCEPT !.catalog_read = TRUE]
    IN  IF items = << >>
        THEN Failed(RaiseWith(ValidationError(422), "Panier vide"), CreateOutcome)
        ELSE IF merging.tag = "raise" THEN Failed(merging, CreateOutcome)
        ELSE IF loaded.tag = "raise" THEN Failed(loaded, read)
        ELSE LET resolved == ResolveLines(settings, merging.merged, loaded.products, << >>)
             IN  IF resolved.tag = "raise" THEN Failed(resolved, read)
                 ELSE [read EXCEPT !.line_items = resolved.line_items,
                                   !.items_count = SumQuantities(merging.merged)]

\* str() of a non-negative integer.
DigitChar(d) ==
    CASE d = 0 -> "0" [] d = 1 -> "1" [] d = 2 -> "2" [] d = 3 -> "3" [] d = 4 -> "4"
      [] d = 5 -> "5" [] d = 6 -> "6" [] d = 7 -> "7" [] d = 8 -> "8" [] d = 9 -> "9"

RECURSIVE FormatInt(_)
FormatInt(n) == IF n < 10 THEN <<DigitChar(n)>> ELSE FormatInt(n \div 10) \o <<DigitChar(n % 10)>>

NoCustomer == [user_id |-> NoneStr]
CheckoutCustomerReference(user_id) == [user_id |-> user_id]

\* Replies of the gateway to Session.create.
CreatedSession(url) == [tag |-> "session", id |-> "cs_test_new", url |-> url]

CreateReplies == {CreatedSession("https://checkout.stripe.test/pay"), CreatedSession(" "),
                  GatewayError("connection")}

CreateChecksKeyLate(settings, items, idempotency_key, customer, catalog, reply) ==
    LET built == _build_line_items(settings, items, catalog)
        request == [mode |-> "payment", line_items |-> built.line_items,
                    metadata |-> [items_count |-> JStr(FormatInt(built.items_count)),
                                  user_id |-> customer.user_id],
                    client_reference_id |-> customer.user_id,
                    idempotency_key |-> idempotency_key]
        sent == [built EXCEPT !.requests = <<request>>]
    IN  IF built.tag = "raise" THEN built
        ELSE IF settings.stripe_secret_key = ""
        THEN Failed(RaiseWith(ConfigurationError, "STRIPE_SECRET_KEY must be configured"),
                    built)
        ELSE IF reply.tag = "error"
        THEN Failed(RaiseWith(IF reply.code = "connection" THEN RetryableError
                              ELSE IF reply.code = "authentication" THEN ConfigurationError
                              ELSE ApiError(502), "gateway"), sent)
        ELSE IF _normalize_text(reply.id) = ""
        THEN Failed(RaiseWith(ApiError(502), "Checkout Stripe invalide"), sent)
        ELSE IF _normalize_text(reply.url) = ""
        THEN Failed(RaiseWith(ApiError(502), "URL checkout Stripe invalide"), sent)
        ELSE [sent EXCEPT !.session_id = _normalize_text(reply.id),
                          !.checkout_url = _normalize_text(reply.url)]

\* create_checkout_session
create_checkout_session(settings, items, idempotency_key, customer, catalog, reply) ==
    LET built == _build_line_items(settings, items, catalog)
        request == [mode |-> "payment", line_items |-> built.line_items,
                    metadata |-> [items_count |-> JStr(FormatInt(built.items_count)),
                                  user_id |-> customer.user_id],
                    client_reference_id |-> customer.user_id,
                    idempotency_key |-> idempotency_key]
        sent == [built EXCEPT !.requests = <<request>>]
    IN  IF settings.stripe_secret_key = ""
        THEN Failed(RaiseWith(ConfigurationError, "STRIPE_SECRET_KEY must be configured"),
                    CreateOutcome)
        ELSE IF built.tag = "raise" THEN built
        ELSE IF reply.tag = "error"
        THEN Failed(RaiseWith(IF reply.code = "connection" THEN RetryableError
                              ELSE IF reply.code = "authentication" THEN ConfigurationError
                              ELSE ApiError(502), "gateway"), sent)
        ELSE IF _normalize_text(reply.id) = ""
        THEN Failed(RaiseWith(ApiError(502), "Checkout Stripe invalide"), sent)
        ELSE IF _normalize_text(reply.url) = ""
        THEN Failed(RaiseWith(ApiError(502), "URL checkout Stripe invalide"), sent)
        ELSE [sent EXCEPT !.session_id = _normalize_text(reply.id),
                          !.checkout_url = _normalize_text(reply.url)]

\* _normalize_idempotency_key
NormalizeIdempotencyKeyNoLimit(raw_key) ==
    IF raw_key = NoneSeq THEN [tag |-> "key", key |-> NoneSeq]
    ELSE IF StripSeq(raw_key) = << >> THEN [tag |-> "key", key |-> NoneSeq]
    ELSE [tag |-> "key", key |-> StripSeq(raw_key)]

NormalizeIdempotencyKeyDropped(raw_key) ==
    IF raw_key # NoneSeq /\ Len(StripSeq(raw_key)) > MaxIdempotencyKeyLen
    THEN RaiseWith(HttpError(400), "Idempotency-Key too long")
    ELSE [tag |-> "key", key |-> NoneSeq]

_normalize_idempotency_key(raw_key) ==
    IF raw_key = NoneSeq THEN [tag |-> "key", key |-> NoneSeq]
    ELSE IF StripSeq(raw_key) = << >> THEN [tag |-> "key", key |-> NoneSeq]
    ELSE IF Len(StripSeq(raw_key)) > MaxIdempotencyKeyLen
    THEN RaiseWith(HttpError(400), "Idempotency-Key too long")
    ELSE [tag |-> "key", key |-> StripSeq(raw_key)]

\* CheckoutSessionCreateRequest: whether the body passes the request schema.
CheckoutSessionCreateRequest(items) ==
    /\ Len(items) >= 1
    /\ Len(items) <= MaxCartLines
    /\ \A i \in DOMAIN items :
         /\ Len(items[i].product_id) >= 1
         /\ Len(items[i].product_id) <= MaxProductIdLen
         /\ items[i].quantity >= 1
         /\ items[i].quantity <= MaxQuantity
         /\ items[i].size = NoneSeq \/ Len(items[i].size) <= MaxSizeLen

\* The HTTP status of an outcome.
StatusOf(out) ==
    IF out.tag # "raise" THEN 200
    ELSE IF out.exc.kind \in {"Http", "RequestValidation"} THEN out.exc.status
    ELSE _raise_checkout_error(out.exc)

\* checkout_session_create: the Authorization dependency, the body schema, then
\* the handler, which resolves the customer before it normalizes the key.
checkout_session_create(req) ==
    LET token == _extract_optional_access_token(req.authorization)
        customer == resolve_authenticated_checkout_customer(req.identity)
        key == _normalize_idempotency_key(req.idempotency_key)
    IN  IF token.tag = "raise"
        THEN Failed(RaiseWith(token.exc, "Invalid bearer token"), CreateOutcome)
        ELSE IF ~CheckoutSessionCreateRequest(req.items)
        THEN Failed(RaiseWith(Exc("RequestValidation", 422), "body"), CreateOutcome)
        ELSE IF token.token # "" /\ customer.tag = "raise"
        THEN Failed(RaiseWith(customer.exc, "customer"), CreateOutcome)
        ELSE IF key.tag = "raise" THEN Failed(key, CreateOutcome)
        ELSE create_checkout_session(
                 Settings("whsec_test"), req.items, key.key,
                 IF token.token # "" THEN CheckoutCustomerReference(customer.user_id)
                 ELSE NoCustomer,
                 req.catalog, req.gateway)

\* ---- inputs
ProductP1 == <<"p", "1">>
ProductP2 == <<"p", "2">>
ProductP9 == <<"p", "9">>

Size38 == <<"3", "8">>

\* Cart lines: the lines of one product and size, lines without a size, a
\* second product, a product that is not active, and lines the cart
\* normalizer refuses.
CartLines ==
    {CheckoutCartItem(ProductP1, q, Size38) : q \in {1, 2}}
    \cup {CheckoutCartItem(ProductP1, 1, s) : s \in {Size38 \o <<" ">>, NoneSeq, << >>, <<" ">>}}
    \cup {CheckoutCartItem(<<" ">> \o ProductP1, 1, NoneSeq),
          CheckoutCartItem(ProductP2, MaxQuantity, NoneSeq),
          CheckoutCartItem(ProductP9, 1, NoneSeq)}
    \cup {CheckoutCartItem(ProductP1, 0, NoneSeq),
          CheckoutCartItem(ProductP1, MaxQuantity + 1, NoneSeq),
          CheckoutCartItem(<<" ">>, 1, NoneSeq)}

RECURSIVE SeqsUpTo(_, _)
SeqsUpTo(S, n) ==
    IF n = 0 THEN {<< >>}
    ELSE SeqsUpTo(S, n - 1) \cup {Append(c, x) : c \in SeqsUpTo(S, n - 1), x \in S}

Carts == SeqsUpTo(CartLines, MaxLines)

\* Replies of the catalog service: the products table, or a transport failure.
CatalogTable(p2_price) ==
    [tag |-> "table",
     table |-> {Product(ProductP1, Dec(49990), TRUE), Product(ProductP2, p2_price, TRUE),
                Product(ProductP9, Dec(15000), FALSE)}]

CatalogReplies ==
    {CatalogTable(Dec(120000)), CatalogTable(Dec(0)),
     [tag |-> "error", exc |-> RetryableError]}

RawPrices ==
    {Dec(m) : m \in (0 - MaxPriceThousandths)..MaxPriceThousandths}
    \cup {Dec(49990), Dec(49994), Dec(49995), JNone, JStr(<<"a", "b", "c">>), NotANumber}

KeyOfLen(n) == [i \in 1..n |-> "k"]

IdempotencyKeys ==
    {NoneSeq, <<" ">>, KeyOfLen(MaxIdempotencyKeyLen), KeyOfLen(MaxIdempotencyKeyLen + 1),
     KeyOfLen(MaxIdempotencyKeyLen) \o <<" ">>, <<" ">> \o KeyOfLen(MaxIdempotencyKeyLen + 1)}

\* Bodies sent to the endpoint.
RequestCarts ==
    {<<CheckoutCartItem(ProductP1, 2, Size38), CheckoutCartItem(ProductP1, 1, Size38)>>,
     << >>,
     <<CheckoutCartItem(ProductP1, MaxQuantity + 1, NoneSeq)>>,
     <<CheckoutCartItem(ProductP9, 1, NoneSeq)>>}

PriceCalls == {[op |-> "_to_minor_units", raw_price |-> p, result |-> NotCalled] : p \in RawPrices}

ServiceCalls ==
    {[op |-> "create_checkout_session", items |-> c, catalog |-> cat, gateway |-> g,
      result |-> NotCalled] :
        c \in Carts, cat \in CatalogReplies,
        g \in {r \in CreateReplies : r.tag = "error" \/ _normalize_text(r.url) # ""}}

EndpointCalls ==
    {[op |-> "checkout_session_create", authorization |-> h, identity |-> i,
      idempotency_key |-> k, items |-> c, catalog |-> CatalogTable(Dec(120000)),
      gateway |-> g, result |-> NotCalled] :
        h \in AuthorizationHeaders, i \in IdentityReplies, k \in IdempotencyKeys,
        c \in RequestCarts, g \in CreateReplies}

CreateInit ==
    /\ rows = {}
    /\ inflight = EmptyBag
    /\ last = EmptyTrace
    /\ lastSrc = [on \in OrderNumbers |-> ""]
    /\ call \in PriceCalls \cup ServiceCalls \cup EndpointCalls
    /\ held = << >>

ToMinorUnits ==
    /\ call.op = "_to_minor_units"
    /\ call.result = NotCalled
    /\ call' = [call EXCEPT !.result = _to_minor_units(call.raw_price)]
    /\ UNCHANGED <<rows, inflight, last, lastSrc, held>>

CreateCheckoutSession ==
    /\ call.op = "create_checkout_session"
    /\ call.result = NotCalled
    /\ call' = [call EXCEPT
                  !.result = create_checkout_session(Settings("whsec_test"), call.items,
                                                     NoneSeq, NoCustomer, call.catalog,
                                                     call.gateway)]
    /\ UNCHANGED <<rows, inflight, last, lastSrc, held>>

CheckoutSessionCreate ==
    /\ call.op = "checkout_session_create"
    /\ call.result = NotCalled
    /\ call' = [call EXCEPT !.result = checkout_session_create(call)]
    /\ UNCHANGED <<rows, inflight, last, lastSrc, held>>

CreateNext ==
    \/ ToMinorUnits
    \/ CreateCheckoutSession
    \/ CheckoutSessionCreate

CreateSpec == CreateInit /\ [][CreateNext]_vars

\* ================================================================= claims
OrderNumberOf(k) == _build_order_number(SessionId(k))

RowsOf(k) == {r \in rows : r.order_number = OrderNumberOf(k)}

\* The last request wrote a row that an earlier reconciliation of the same
\* session had written.
RewroteOwnRow ==
    /\ last.wrote
    /\ last.replaced # {}
    /\ last.replaced_src = last.session

\* Whether the payload of a session attributes and derives an order unaided.
SelfAttributed(k) ==
    _build_confirmed_order(Settings("whsec_test"), SessionPayload(k, "paid"), NoneStr, 1).tag = "order"

HasCreated(k) ==
    LET created == SessionPayload(k, "paid").created
    IN  created.t = "int" /\ created.v > 0

\* C1: whatever syncs, webhook deliveries and retries for one payment session
\* run concurrently, storage holds at most one order row for that session.
C1_AtMostOneRowPerSession ==
    \A k \in SessionKeys : Cardinality(RowsOf(k)) <= 1

\* Two reconciliations of one session have written and a third is in flight.
C1_Witness ==
    /\ RewroteOwnRow
    /\ \E t \in BagToSet(inflight) : t.session = last.session /\ t.endpoint # last.endpoint
    /\ Cardinality(RowsOf(last.session)) = 1

\* C2 as stated: a second reconciliation of the same session leaves exactly one
\* row, every column of which has the value the first reconciliation wrote.
C2_SecondWriteIdentical ==
    RewroteOwnRow =>
        /\ Cardinality(RowsOf(last.session)) = 1
        /\ \A r \in last.replaced : Columns(r) = TheOrder(last)

\* C2 amended: a second reconciliation of the same session leaves exactly one
\* row with the same order_number, status, total_amount, currency and
\* items_count; user_id is the same when the payload carries its attribution
\* and is otherwise the expected user id of the latest sync; ordered_at is the
\* same when the payload carries a positive created timestamp.
C2_SecondWriteIdenticalAmended ==
    RewroteOwnRow =>
        /\ Cardinality(RowsOf(last.session)) = 1
        /\ \A r \in last.replaced :
             LET o == TheOrder(last)
             IN  /\ r.order_number = o.order_number
                 /\ r.status = o.status
                 /\ r.total_amount = o.total_amount
                 /\ r.currency = o.currency
                 /\ r.items_count = o.items_count
                 /\ IF SelfAttributed(last.session)
                    THEN r.user_id = o.user_id
                    ELSE o.user_id = last.expected
                 /\ HasCreated(last.session) => r.ordered_at = o.ordered_at

\* The guest session without a created timestamp has been reconciled twice for
\* the same user and took a later ordered_at the second time.
C2_Witness ==
    /\ RewroteOwnRow
    /\ last.session = "B"
    /\ \E r \in last.replaced :
         /\ r.user_id = TheOrder(last).user_id
         /\ r.ordered_at < TheOrder(last).ordered_at
    /\ \E r \in rows : Columns(r) = TheOrder(last)

\* C3 as stated: sessions with different ids have different order numbers, so
\* the reconciliation of one never overwrites the row of another.
C3_DistinctSessionsDistinctRows ==
    /\ \A j \in SessionKeys, k \in SessionKeys :
         (SessionId(j) # SessionId(k) /\ RowsOf(j) # {} /\ RowsOf(k) # {})
             => OrderNumberOf(j) # OrderNumberOf(k)
    /\ (last.wrote /\ last.replaced # {}) => last.replaced_src = last.session

\* The claim's case: the sync endpoint retrieved a session that is not paid.
SyncSawUnpaid ==
    /\ last.endpoint = "sync"
    /\ last.session # ""
    /\ last.payment_status # "paid"

\* C4: a sync of a session that is not paid writes nothing and answers
\* order_recorded = false and order_number = null, whoever asks.
C4_UnpaidSyncWritesNothing ==
    SyncSawUnpaid =>
        /\ ~last.wrote
        /\ last.response.status = 200
        /\ ~last.response.order_recorded
        /\ last.response.order_number = NoOrderNumber
        /\ last.response.payment_status =
             IF last.payment_status = "" THEN "unknown" ELSE last.payment_status

C4_Witness ==
    /\ SyncSawUnpaid
    /\ last.expected = UserU
    /\ last.session = "A"
    /\ last.response.payment_status = "unpaid"
    /\ rows # {}

\* The claim's case: sync with an expected user id of a paid session whose
\* derived order belongs to another valid user id.
SyncOfForeignSession ==
    /\ last.endpoint = "sync"
    /\ last.expected # ""
    /\ last.payment_status = "paid"
    /\ last.derived # {}
    /\ TheOrder(last).user_id # last.expected
    /\ _is_valid_uuid(TheOrder(last).user_id)

C6_MismatchIsForbidden ==
    SyncOfForeignSession => last.response.status = 403

SignatureFailures == {"no_signature", "bad_signature", "bad_payload"}

\* The delivery is not an event signed with the configured secret.
Unverifiable == last.endpoint = "webhook" /\ ~last.genuine

\* C7: a delivery that does not verify is never handled, writes nothing and is
\* answered with an error, 400 when the signature or the body is at fault.
C7_WebhookFailsClosed ==
    /\ Unverifiable =>
         /\ last.verify # "ok"
         /\ ~last.handled
         /\ ~last.wrote
         /\ last.response.status >= 400
         /\ ~last.response.received
    /\ (last.endpoint = "webhook" /\ last.verify \in SignatureFailures) =>
         /\ last.response.status = 400
         /\ last.response.kind = "Signature"

C7_Witness ==
    /\ Unverifiable
    /\ last.verify = "bad_signature"
    /\ last.response.status = 400
    /\ rows # {}

\* C8: the webhook handler writes only for the two settlement event types; an
\* event of another type changes nothing and is acknowledged.
C8_OnlySettlementEventsWrite ==
    /\ (last.endpoint = "webhook" /\ last.wrote) => last.etype \in SettlementTypes
    /\ (last.endpoint = "webhook" /\ last.handled /\ last.etype \notin SettlementTypes) =>
         /\ ~last.wrote
         /\ last.response.status = 200
         /\ last.response.received

C8_Witness ==
    /\ last.endpoint = "webhook"
    /\ last.handled
    /\ last.etype = "payment_intent.succeeded"
    /\ last.response.received
    /\ rows # {}

\* The claim's case: a handled checkout.session.completed event whose session
\* is not paid.
CompletedUnpaid ==
    /\ last.endpoint = "webhook"
    /\ last.handled
    /\ last.etype = CompletedType
    /\ last.session # ""
    /\ last.payment_status # "paid"

\* C9: such an event writes nothing and is acknowledged.
C9_CompletedUnpaidWritesNothing ==
    CompletedUnpaid =>
        /\ ~last.wrote
        /\ last.response.status = 200
        /\ last.response.received

C9_Witness ==
    /\ CompletedUnpaid
    /\ last.session = "A"
    /\ last.payment_status = "unpaid"

\* The claim's case: a handled checkout.session.async_payment_succeeded event
\* for an attributable session, answered after storage took the write.
AsyncSucceededAnswered ==
    /\ last.endpoint = "webhook"
    /\ last.handled
    /\ last.etype = AsyncSucceededType
    /\ last.session # ""
    /\ SelfAttributed(last.session)
    /\ last.response.status = 200

\* C10: such an event writes the order whatever payment_status its session
\* carries, while the same session as checkout.session.completed is written
\* only when it is paid.
C10_AsyncSucceededWritesUnchecked ==
    /\ AsyncSucceededAnswered => last.wrote /\ RowsOf(last.session) # {}
    /\ (last.endpoint = "webhook" /\ last.etype = CompletedType /\ last.wrote) =>
         last.payment_status = "paid"

C10_Witness ==
    /\ AsyncSucceededAnswered
    /\ last.payment_status = "unpaid"
    /\ last.wrote
    /\ last.replaced = {}

\* --------------------------------------------------------------- C11
\* Whether a text resolves to a syntactically valid UUID.
Resolves(v) == _normalize_text(v) # "" /\ _is_valid_uuid(_normalize_text(v))

\* The candidates of the attribution in the order of preference.
Candidates(c) ==
    <<c.session.client_reference_id, c.session.metadata.user_id, c.fallback_user_id>>

Derived == call.op = "_build_confirmed_order" /\ call.result # NotCalled

\* C11 as stated: the derivation attributes the order to the first of
\* client_reference_id, metadata user_id and the fallback that is a valid UUID,
\* and gives none only when none of the three is a valid UUID.
C11_FirstValidCandidateWins ==
    Derived =>
        /\ call.result.tag = "none" =>
              \A i \in 1..3 : ~Resolves(Candidates(call)[i])
        /\ call.result.tag = "order" =>
              \E i \in 1..3 :
                  /\ Resolves(Candidates(call)[i])
                  /\ \A j \in 1..(i - 1) : ~Resolves(Candidates(call)[j])
                  /\ call.result.order.user_id = _normalize_text(Candidates(call)[i])

\* --------------------------------------------------------------- C12
\* The claim's case at the sync endpoint: a guest asks for a paid session
\* whose payload names no user.
GuestSyncOfGuestSession ==
    /\ last.endpoint = "sync"
    /\ last.session # ""
    /\ last.payment_status = "paid"
    /\ last.expected = ""
    /\ ~SelfAttributed(last.session)

\* The claim's case at the webhook: a settlement event of such a session.
SettlementOfGuestSession ==
    /\ last.endpoint = "webhook"
    /\ last.handled
    /\ last.etype \in SettlementTypes
    /\ last.session # ""
    /\ last.payment_status = "paid"
    /\ ~SelfAttributed(last.session)

\* C12: a paid session that cannot be attributed to a user is a no-op without
\* error: sync answers paid, order_recorded false and order_number null, the
\* webhook answers received true, and neither writes.
C12_UnattributedIsNoOp ==
    /\ GuestSyncOfGuestSession =>
          /\ ~last.wrote
          /\ last.derived = {}
          /\ last.response = SyncBody("paid", FALSE, NoOrderNumber)
    /\ SettlementOfGuestSession =>
          /\ ~last.wrote
          /\ last.derived = {}
          /\ last.response = Received

\* A guest sync of the guest session after a signed-in sync had recorded it.
C12_Witness ==
    /\ GuestSyncOfGuestSession
    /\ last.session = "B"
    /\ last.response.status = 200
    /\ ~last.response.order_recorded
    /\ RowsOf("B") # {}

\* --------------------------------------------------------------- C13
\* The customer a session was created for: create_checkout_session sets
\* client_reference_id and metadata user_id to the customer's user id.
CustomerOf(k) ==
    LET payload == SessionPayload(k, "paid")
    IN  IF /\ Resolves(payload.client_reference_id)
           /\ payload.metadata.user_id = payload.client_reference_id
        THEN payload.client_reference_id
        ELSE ""

\* The last request was a sync of a customer's paid session by another user.
SyncByAnotherUser ==
    /\ last.endpoint = "sync"
    /\ last.session # ""
    /\ last.payment_status = "paid"
    /\ CustomerOf(last.session) # ""
    /\ last.expected \notin {"", CustomerOf(last.session)}

\* C13: every row a reconciliation of a customer's session writes carries that
\* customer's user id, whether a guest sync, the customer's sync or a webhook
\* wrote it, and a sync by another user is rejected without a write.
C13_CustomerSessionStaysWithCustomer ==
    /\ \A k \in SessionKeys :
          CustomerOf(k) # "" =>
              /\ \A r \in RowsOf(k) :
                    lastSrc[OrderNumberOf(k)] = k => r.user_id = CustomerOf(k)
              /\ (last.wrote /\ last.session = k) =>
                    TheOrder(last).user_id = CustomerOf(k)
              /\ \A t \in BagToSet(inflight) :
                    t.session = k => TheOrder(t).user_id = CustomerOf(k)
    /\ SyncByAnotherUser =>
          /\ ~last.wrote
          /\ last.response.status >= 400

\* The customer's session has been recorded, and a sync of it by another user
\* was refused while a webhook delivery for it is on its way to storage.
C13_Witness ==
    /\ SyncByAnotherUser
    /\ last.session = "A"
    /\ last.expected = UserV
    /\ RowsOf("A") # {}
    /\ lastSrc[OrderNumberOf("A")] = "A"
    /\ \E t \in BagToSet(inflight) : t.session = "A" /\ t.endpoint = "webhook"

\* ------------------------------------------------------- C14 .. C18
ServiceApplied == call.op = "create_checkout_session" /\ call.result # NotCalled

EndpointApplied == call.op = "checkout_session_create" /\ call.result # NotCalled

\* The key of a cart line as the contract words it: the trimmed product id and
\* the trimmed size, an absent or blank size being no size.
ClaimKey(item) ==
    [product_id |-> StripSeq(item.product_id),
     size |-> IF item.size = NoneSeq THEN NoneSeq
              ELSE IF \A i \in DOMAIN item.size : item.size[i] = " " THEN NoneSeq
              ELSE StripSeq(item.size)]

LineKey(line) == [product_id |-> line.product_id, size |-> line.size]

ValidCart(items) ==
    /\ Len(items) >= 1
    /\ Len(items) <= MaxCartLines
    /\ \A i \in DOMAIN items :
         /\ StripSeq(items[i].product_id) # << >>
         /\ items[i].quantity >= 1
         /\ items[i].quantity <= MaxQuantity

\* The active products a cart line can be resolved against.
Offered(item, catalog) ==
    {p \in catalog.table : p.is_active /\ p.id = StripSeq(item.product_id)}

AllOffered(items, catalog) ==
    /\ catalog.tag = "table"
    /\ \A i \in DOMAIN items : Offered(items[i], catalog) # {}

Priced(item, catalog) ==
    \A p \in Offered(item, catalog) : _to_minor_units(p.price).tag = "amount"

\* The cart normalizer returned: its line items are in the outcome.
Normalized == ServiceApplied /\ call.result.line_items # << >>

QuantityOfKey(items, key) ==
    SumQuantities(SelectSeq(items, LAMBDA item : ClaimKey(item) = key))

FirstIndex(items, key) ==
    CHOOSE i \in DOMAIN items :
        /\ ClaimKey(items[i]) = key
        /\ \A j \in 1..(i - 1) : ClaimKey(items[j]) # key

\* C14: for a valid cart whose products are all in the active catalog, the
\* total item count the cart normalizer returns and the sum of the quantities
\* of its line items both equal the sum of the input quantities.
C14_TotalsEqualInputSum ==
    (ServiceApplied /\ ValidCart(call.items) /\ AllOffered(call.items, call.catalog)) =>
        /\ (\A i \in DOMAIN call.items : Priced(call.items[i], call.catalog)) => Normalized
        /\ Normalized =>
             /\ call.result.items_count = SumQuantities(call.items)
             /\ SumQuantities(call.result.line_items) = SumQuantities(call.items)
             /\ \A i \in DOMAIN call.result.requests :
                  call.result.requests[i].metadata.items_count
                      = JStr(FormatInt(SumQuantities(call.items)))

\* Three lines, two of which merge, sent to the gateway as two line items.
C14_Witness ==
    /\ Normalized
    /\ Len(call.items) = 3
    /\ Len(call.result.line_items) = 2
    /\ call.result.items_count = MaxQuantity + 3
    /\ Len(call.result.requests) = 1

\* The merged quantities as a mapping, whatever the order of the lines.
LineMapping(line_items) ==
    {[key |-> LineKey(line_items[i]), quantity |-> line_items[i].quantity] :
        i \in DOMAIN line_items}

Permuted(items, f) == [i \in DOMAIN items |-> items[f[i]]]

NormalizedAs(items, catalog) == _build_line_items(Settings("whsec_test"), items, catalog)

\* C15: any permutation of the lines of a valid cart gives the same mapping
\* from (product_id, normalized size) to merged quantity and the same total.
C15_MergeIsCommutative ==
    (ServiceApplied /\ ValidCart(call.items)) =>
        \A f \in Permutations(DOMAIN call.items) :
            LET other == NormalizedAs(Permuted(call.items, f), call.catalog)
            IN  /\ LineMapping(other.line_items) = LineMapping(call.result.line_items)
                /\ other.items_count = call.result.items_count

\* A cart whose reversal yields the same merged lines in another order.
C15_Witness ==
    /\ Normalized
    /\ Len(call.items) = 3
    /\ Len(call.result.line_items) = 2
    /\ call.items[2].quantity # call.items[3].quantity
    /\ ClaimKey(call.items[2]) = ClaimKey(call.items[3])
    /\ NormalizedAs(Permuted(call.items, [i \in 1..3 |-> 4 - i]), call.catalog).line_items
           # call.result.line_items

\* C16: one line item per distinct (product_id, normalized size), its quantity
\* the sum of the input quantities of that key, the line items in the order of
\* the first occurrence of their keys; the size is trimmed, and an absent,
\* empty or blank size is the same "no size" key.
C16_OneLinePerKey ==
    (Normalized /\ ValidCart(call.items)) =>
        LET lines == call.result.line_items
        IN  /\ {LineKey(lines[i]) : i \in DOMAIN lines}
                   = {ClaimKey(call.items[i]) : i \in DOMAIN call.items}
            /\ \A i \in DOMAIN lines, j \in DOMAIN lines :
                 i < j =>
                    /\ LineKey(lines[i]) # LineKey(lines[j])
                    /\ FirstIndex(call.items, LineKey(lines[i]))
                           < FirstIndex(call.items, LineKey(lines[j]))
            /\ \A i \in DOMAIN lines :
                 lines[i].quantity = QuantityOfKey(call.items, LineKey(lines[i]))

\* A padded size merges with the trimmed one, a blank size is no size, and the
\* product of the catalog at 49.99 is sent at 4999.
C16_Witness ==
    /\ Normalized
    /\ call.items = <<CheckoutCartItem(ProductP1, 2, Size38),
                      CheckoutCartItem(ProductP1, 1, <<" ">>),
                      CheckoutCartItem(ProductP1, 1, Size38 \o <<" ">>)>>
    /\ Len(call.result.line_items) = 2
    /\ call.result.line_items[1].quantity = 3
    /\ call.result.line_items[1].unit_amount = 4999
    /\ call.result.line_items[2].size = NoneSeq

\* The cart is empty or has a line whose quantity is out of range.
RefusedCart(items) ==
    \/ items = << >>
    \/ \E i \in DOMAIN items : items[i].quantity <= 0 \/ items[i].quantity > MaxQuantity

NothingCreated(out) ==
    /\ out.tag = "raise"
    /\ out.requests = << >>
    /\ out.session_id = ""

\* C17: an empty cart or a quantity <= 0 or > 20 is rejected with a validation
\* error before the catalog is read and before any gateway call, and creates
\* no session: by the cart normalizer when it is called, and by the request
\* schema for a body sent to the endpoint with an acceptable Authorization
\* header.
C17_RefusedCartRejectedEarly ==
    /\ (ServiceApplied /\ RefusedCart(call.items)) =>
          /\ NothingCreated(call.result)
          /\ ~call.result.catalog_read
          /\ call.result.exc.kind = "Validation"
          /\ StatusOf(call.result) = 422
    /\ (EndpointApplied /\ RefusedCart(call.items)) =>
          /\ NothingCreated(call.result)
          /\ ~call.result.catalog_read
          /\ _extract_optional_access_token(call.authorization).tag # "raise" =>
                /\ call.result.exc.kind = "RequestValidation"
                /\ StatusOf(call.result) = 422

\* Two valid lines followed by a line of 21 items.
C17_Witness ==
    /\ ServiceApplied
    /\ Len(call.items) = 3
    /\ ValidCart(SubSeq(call.items, 1, 2))
    /\ call.items[3].quantity = MaxQuantity + 1
    /\ call.catalog.tag = "table"
    /\ call.result.message = "Quantite trop elevee"

\* A valid cart with a line whose product the active catalog does not hold.
HasUnavailable(items, catalog) ==
    /\ ValidCart(items)
    /\ catalog.tag = "table"
    /\ \E i \in DOMAIN items : Offered(items[i], catalog) = {}

FirstUnavailable(items, catalog) ==
    CHOOSE i \in DOMAIN items :
        /\ Offered(items[i], catalog) = {}
        /\ \A j \in 1..(i - 1) : Offered(items[j], catalog) # {}

PriceApplied == call.op = "_to_minor_units" /\ call.result # NotCalled

\* The hundredths nearest to a number of thousandths, a tie going away from
\* zero.
NearestHundredths(m) ==
    LET span == (IF m >= 0 THEN m ELSE 0 - m) \div 10 + 1
    IN  CHOOSE c \in (0 - span)..span :
            IF m >= 0 THEN 10 * c - 5 <= m /\ m < 10 * c + 5
            ELSE 10 * c - 5 < m /\ m <= 10 * c + 5

\* C19: a price becomes its value rounded half-up to two decimals, times 100;
\* a price that cannot be parsed or whose result is <= 0 is rejected with
\* "invalid product price"; every unit amount sent to the gateway is a
\* positive integer.
C19_PriceToMinorUnits ==
    /\ PriceApplied =>
         IF call.raw_price.t = "dec"
         THEN IF NearestHundredths(call.raw_price.m) > 0
              THEN call.result = [tag |-> "amount",
                                  unit_amount |-> NearestHundredths(call.raw_price.m)]
              ELSE /\ call.result.tag = "raise"
                   /\ call.result.exc.kind = "Validation"
                   /\ call.result.message = "Prix produit invalide"
         ELSE IF call.raw_price.t \in {"none", "str"}
         THEN /\ call.result.tag = "raise"
              /\ call.result.exc.kind = "Validation"
              /\ call.result.message = "Prix produit invalide"
         ELSE call.result.tag = "raise"
    /\ (ServiceApplied \/ EndpointApplied) =>
         \A i \in DOMAIN call.result.requests :
             \A j \in DOMAIN call.result.requests[i].line_items :
                 /\ call.result.requests[i].line_items[j].unit_amount \in Nat
                 /\ call.result.requests[i].line_items[j].unit_amount > 0

\* 49.995 is rounded up to 5000.
C19_Witness ==
    /\ PriceApplied
    /\ call.raw_price = Dec(49995)
    /\ call.result.tag = "amount"
    /\ call.result.unit_amount = 5000

ReachesKey(c) ==
    /\ _extract_optional_access_token(c.authorization).tag # "raise"
    /\ CheckoutSessionCreateRequest(c.items)
    /\ \/ _extract_optional_access_token(c.authorization).token = ""
       \/ resolve_authenticated_checkout_customer(c.identity).tag # "raise"

MaxSubmissions == 3

\* What becomes of a submission on its way to the gateway and back.
Deliveries == {"delivered", "request_lost", "response_lost"}

GatewaySessionId(n) == "cs_test_" \o ToString(n)

\* The sessions the gateway made for an idempotency key.
MadeFor(sessions, key) ==
    {n \in DOMAIN sessions : key # NoneSeq /\ sessions[n].idempotency_key = key}

\* stripe.checkout.Session.create gateway-side: a request that repeats an
\* idempotency key is answered with the session made for that key, any other
\* request makes a session.  The caller sees a connection error when the
\* request or the response is lost.
SessionCreate(sessions, request, delivery) ==
    LET made == MadeFor(sessions, request.idempotency_key)
        id == IF made # {} THEN sessions[CHOOSE n \in made : TRUE].id
              ELSE GatewaySessionId(Len(sessions) + 1)
    IN  IF delivery = "request_lost"
        THEN [sessions |-> sessions, reply |-> GatewayError("connection")]
        ELSE [sessions |-> IF made # {} THEN sessions
                           ELSE Append(sessions,
                                       [id |-> id,
                                        idempotency_key |-> request.idempotency_key,
                                        line_items |-> request.line_items]),
              reply |-> IF delivery = "response_lost" THEN GatewayError("connection")
                        ELSE [tag |-> "session", id |-> id,
                              url |-> "https://checkout.stripe.test/pay"]]

\* The request a submission sends to the gateway, << >> if it sends none.
RequestsOf(req) ==
    checkout_session_create([req EXCEPT !.gateway = GatewayError("connection")]).requests

\* Idempotency-Key headers of the submissions: none, blank, one key with and
\* without surrounding blanks, another key.
RetryKeys == {NoneSeq, <<" ">>, <<"k", "1">>, <<" ", "k", "1", " ">>, <<"k", "2">>}

Submissions ==
    {[op |-> "checkout_session_create", authorization |-> NoHeader,
      identity |-> IdentityReply(0, NoneStr), idempotency_key |-> k,
      items |-> <<CheckoutCartItem(ProductP1, 2, Size38)>>,
      catalog |-> CatalogTable(Dec(120000)), gateway |-> GatewayError("connection"),
      delivery |-> d, result |-> NotCalled] :
        k \in RetryKeys, d \in Deliveries}

NoSubmissions == [op |-> "submissions", log |-> << >>]

RetryInit ==
    /\ rows = {}
    /\ inflight = EmptyBag
    /\ last = EmptyTrace
    /\ lastSrc = [on \in OrderNumbers |-> ""]
    /\ call = NoSubmissions
    /\ held = << >>

\* One submission to POST /checkout/session, with the gateway's part in it;
\* call.log keeps the submissions made so far with their responses.
SubmitCheckoutSession ==
    \E req \in Submissions :
        LET requests == RequestsOf(req)
            handled == IF requests = << >> THEN [sessions |-> held, reply |-> req.gateway]
                       ELSE SessionCreate(held, requests[1], req.delivery)
        IN  /\ Len(call.log) < MaxSubmissions
            /\ held' = handled.sessions
            /\ call' = [call EXCEPT
                          !.log = Append(@, [req EXCEPT
                                    !.gateway = handled.reply,
                                    !.result = checkout_session_create(
                                                   [req EXCEPT !.gateway = handled.reply])])]
            /\ UNCHANGED <<rows, inflight, last, lastSrc>>

RetryNext == SubmitCheckoutSession

RetrySpec == RetryInit /\ [][RetryNext]_vars

\* ---- C21
Submitted == call.op = "submissions" /\ call.log # << >>

\* The idempotency key a submission carries, NoneSeq if absent or blank.
KeyCarried(e) ==
    IF e.idempotency_key = NoneSeq \/ \A i \in DOMAIN e.idempotency_key : e.idempotency_key[i] = " "
    THEN NoneSeq
    ELSE LET first == CHOOSE i \in DOMAIN e.idempotency_key :
                         /\ e.idempotency_key[i] # " "
                         /\ \A j \in 1..(i - 1) : e.idempotency_key[j] = " "
             final == CHOOSE i \in DOMAIN e.idempotency_key :
                         /\ e.idempotency_key[i] # " "
                         /\ \A j \in (i + 1)..Len(e.idempotency_key) : e.idempotency_key[j] = " "
         IN  SubSeq(e.idempotency_key, first, final)

Answered(e) == e.result.tag = "return"

\* C21: a submission with a non-blank idempotency key passes the key, trimmed,
\* to the gateway's create-session call; all answered submissions with one key
\* return the same session id and the gateway holds at most one session for the
\* key.  Submissions without a key (absent or blank) that reach the gateway make
\* one session each, and answered ones return pairwise different session ids.
C21_SameKeySameSession ==
    Submitted =>
        LET log == call.log
            keyless == {i \in DOMAIN log : KeyCarried(log[i]) = NoneSeq}
        IN  /\ \A i \in DOMAIN log :
                 /\ Len(log[i].result.requests) = 1
                 /\ log[i].result.requests[1].idempotency_key = KeyCarried(log[i])
            /\ \A i \in DOMAIN log, j \in DOMAIN log :
                 /\ KeyCarried(log[i]) # NoneSeq
                 /\ KeyCarried(log[i]) = KeyCarried(log[j])
                 /\ Answered(log[i])
                 /\ Answered(log[j])
                 => log[i].result.session_id = log[j].result.session_id
            /\ \A i \in DOMAIN log :
                 KeyCarried(log[i]) # NoneSeq =>
                     Cardinality({n \in DOMAIN held :
                                     held[n].idempotency_key = KeyCarried(log[i])}) <= 1
            /\ Cardinality({n \in DOMAIN held : held[n].idempotency_key = NoneSeq})
                  = Cardinality({i \in keyless : log[i].delivery # "request_lost"})
            /\ \A i \in keyless, j \in keyless :
                 i # j /\ Answered(log[i]) /\ Answered(log[j])
                 => log[i].result.session_id # log[j].result.session_id

\* One key was submitted three times, padded with blanks once and with the
\* first response lost, and the two answered submissions returned the one
\* session the gateway holds.
C21_Witness ==
    /\ Submitted
    /\ Len(call.log) = 3
    /\ \A i \in 1..3 : KeyCarried(call.log[i]) = <<"k", "1">>
    /\ call.log[1].delivery = "response_lost"
    /\ call.log[2].idempotency_key # call.log[3].idempotency_key
    /\ Answered(call.log[2])
    /\ Answered(call.log[3])
    /\ call.log[2].result.session_id = call.log[3].result.session_id
    /\ Len(held) = 1

\* -------------------------------------------------------- checkout origin
\* A URL by the parts urlsplit gives for it: scheme (lower-cased by urlsplit),
\* netloc, path, query, fragment.  NoUrl is an absent or empty value.
NoUrl == [present |-> FALSE]
Url(scheme, netloc, path, query, fragment) ==
    [present |-> TRUE, scheme |-> scheme, netloc |-> netloc, path |-> path,
     query |-> query, fragment |-> fragment]

LowerScheme(scheme) ==
    CASE scheme = "HTTP" -> "http"
      [] scheme = "HTTPS" -> "https"
      [] OTHER -> scheme

\* The string scheme://netloc.
Origin(scheme, netloc) == [scheme |-> scheme, netloc |-> netloc]
NoOrigin == Origin("", "")

\* _normalize_origin: NoOrigin stands for None.
_normalize_origin(raw_value) ==
    IF ~raw_value.present THEN NoOrigin
    ELSE IF LowerScheme(raw_value.scheme) \notin {"http", "https"} THEN NoOrigin
    ELSE IF raw_value.netloc = "" THEN NoOrigin
    ELSE IF raw_value.path \notin {"", "/"} THEN NoOrigin
    ELSE IF raw_value.query # "" \/ raw_value.fragment # "" THEN NoOrigin
    ELSE Origin(LowerScheme(raw_value.scheme), raw_value.netloc)

\* The settings origin resolution reads.
OriginSettings(cors_origins) ==
    [frontend_host |-> "127.0.0.1", frontend_port |-> 3000, cors_origins |-> cors_origins]

DefaultOrigin(settings) ==
    Origin("http", settings.frontend_host \o ":" \o ToString(settings.frontend_port))

AllowedOrigins(settings) ==
    ({_normalize_origin(value) : value \in settings.cors_origins} \ {NoOrigin})
    \cup {DefaultOrigin(settings)}

ResolveOriginTrusting(origin_header, settings) ==
    IF _normalize_origin(origin_header) # NoOrigin
    THEN _normalize_origin(origin_header)
    ELSE DefaultOrigin(settings)

\* _resolve_checkout_origin
_resolve_checkout_origin(origin_header, settings) ==
    IF /\ _normalize_origin(origin_header) # NoOrigin
       /\ _normalize_origin(origin_header) \in AllowedOrigins(settings)
    THEN _normalize_origin(origin_header)
    ELSE DefaultOrigin(settings)

\* The redirect URLs checkout_session_create hands to create_checkout_session.
RedirectUrls(origin) ==
    [success_url |-> [origin |-> origin,
                      path |-> "/commande/confirmation?session_id={CHECKOUT_SESSION_ID}"],
     cancel_url |-> [origin |-> origin, path |-> "/commande/annulee"]]

\* ---- inputs
\* CORS_ORIGINS: the defaults of get_settings, a shop origin written with a
\* trailing slash beside values that are no origins, and nothing usable.
CorsConfigurations ==
    {{Url("http", "127.0.0.1:3000", "", "", ""), Url("http", "localhost:3000", "", "", "")},
     {Url("https", "shop.example", "/", "", ""), Url("", "", "*", "", ""),
      Url("https", "pay.example", "/app", "", "")},
     {Url("", "", "*", "", "")}}

OriginHeaders ==
    {NoUrl}
    \cup {Url(s, n, p, q, f) :
            s \in {"http", "https", "HTTPS", "ftp", ""},
            n \in {"", "127.0.0.1:3000", "localhost:3000", "shop.example", "pay.example",
                   "evil.example", "shop.example@evil.example"},
            p \in {"", "/", "/app"}, q \in {"", "next=1"}, f \in {"", "top"}}

OriginCalls ==
    {[op |-> "_resolve_checkout_origin", origin |-> h, settings |-> OriginSettings(c),
      result |-> NotCalled] :
        h \in OriginHeaders, c \in CorsConfigurations}

OriginInit ==
    /\ rows = {}
    /\ inflight = EmptyBag
    /\ last = EmptyTrace
    /\ lastSrc = [on \in OrderNumbers |-> ""]
    /\ call \in OriginCalls
    /\ held = << >>

ResolveCheckoutOrigin ==
    /\ call.op = "_resolve_checkout_origin"
    /\ call.result = NotCalled
    /\ call' = [call EXCEPT
                  !.result = RedirectUrls(_resolve_checkout_origin(call.origin, call.settings))]
    /\ UNCHANGED <<rows, inflight, last, lastSrc, held>>

OriginNext == ResolveCheckoutOrigin

OriginSpec == OriginInit /\ [][OriginNext]_vars

\* ---- C22
OriginApplied == call.op = "_resolve_checkout_origin" /\ call.result # NotCalled

\* The origin a header declares: its scheme and host part, if it is an http(s)
\* URL without path, query or fragment.
Declares(h, o) ==
    /\ h.present
    /\ h.scheme \in {"http", "https", "HTTP", "HTTPS"}
    /\ h.netloc # ""
    /\ h.path \in {"", "/"}
    /\ h.query = ""
    /\ h.fragment = ""
    /\ o.netloc = h.netloc
    /\ o.scheme = (IF h.scheme \in {"http", "HTTP"} THEN "http" ELSE "https")

\* The origins the configuration lists, and the default origin.
Listed(settings) == {o \in {Origin(s, v.netloc) : s \in {"http", "https"}, v \in settings.cors_origins} :
                        \E v \in settings.cors_origins : Declares(v, o)}
ConfiguredDefault == Origin("http", "127.0.0.1:3000")

\* C22: success_url and cancel_url are built on one origin, which is listed in
\* the configuration or is the default origin: the origin the Origin header
\* declares if that origin is listed (or is the default), and the default
\* origin when the header is absent, declares no origin, or declares one that
\* is not listed.
C22_OriginIsAllowListed ==
    OriginApplied =>
        LET used == call.result.success_url.origin
            allowed == Listed(call.settings) \cup {ConfiguredDefault}
        IN  /\ call.result.cancel_url.origin = used
            /\ used \in allowed
            /\ \A o \in allowed : Declares(call.origin, o) => used = o
            /\ (~\E o \in allowed : Declares(call.origin, o)) => used = ConfiguredDefault

\* A header declaring the listed shop origin, in upper-case scheme and with a
\* trailing slash, got the shop origin and not the default one.
C22_Witness ==
    /\ OriginApplied
    /\ call.origin = Url("HTTPS", "shop.example", "/", "", "")
    /\ call.result.success_url.origin = Origin("https", "shop.example")
    /\ call.result.success_url.origin # ConfiguredDefault

\* ----------------------------------------------------------- error mapping
\* Statuses an upstream API error is raised with.
MinApiStatus == 390
MaxApiStatus == 610

\* The exceptions the handlers hand to _raise_checkout_error: the six kinds of
\* the checkout components, with the statuses they are raised with, and
\* exceptions of other types.
RaisedExceptions ==
    {ConfigurationError, AuthError, SignatureError, RetryableError}
    \cup {ValidationError(s) : s \in {400, 404, 422, 502}}
    \cup {ApiError(s) : s \in MinApiStatus..MaxApiStatus}
    \cup {Exc("ValueError", 0), Exc("KeyError", 0)}

ErrorCalls ==
    {[op |-> "_raise_checkout_error", exc |-> e, result |-> NotCalled] : e \in RaisedExceptions}

ErrorInit ==
    /\ rows = {}
    /\ inflight = EmptyBag
    /\ last = EmptyTrace
    /\ lastSrc = [on \in OrderNumbers |-> ""]
    /\ call \in ErrorCalls
    /\ held = << >>

RaiseCheckoutError ==
    /\ call.op = "_raise_checkout_error"
    /\ call.result = NotCalled
    /\ call' = [call EXCEPT !.result = [status_code |-> _raise_checkout_error(call.exc)]]
    /\ UNCHANGED <<rows, inflight, last, lastSrc, held>>

ErrorNext == RaiseCheckoutError

ErrorSpec == ErrorInit /\ [][ErrorNext]_vars

\* ---- C23
ErrorMapped == call.op = "_raise_checkout_error" /\ call.result # NotCalled

C24_ValidationIsClientError ==
    (ServiceApplied \/ EndpointApplied) /\ call.result.tag = "raise"
        /\ call.result.exc.kind = "Validation"
        => StatusOf(call.result) \in 400..499

\* ------------------------------------- session creation and the secret key
\* get_settings() when STRIPE_SECRET_KEY is unset or blank.
SettingsWithoutSecretKey == [Settings("whsec_test") EXCEPT !.stripe_secret_key = ""]

ConfiguredCalls ==
    {[op |-> "create_checkout_session", settings |-> s, items |-> c, idempotency_key |-> k,
      customer |-> u, catalog |-> cat, gateway |-> g, result |-> NotCalled] :
        s \in {Settings("whsec_test"), SettingsWithoutSecretKey},
        c \in SeqsUpTo(CartLines, 1), k \in {NoneSeq, <<"k", "1">>},
        u \in {NoCustomer, CheckoutCustomerReference(UserU)}, cat \in CatalogReplies,
        g \in {r \in CreateReplies : r.tag = "error" \/ _normalize_text(r.url) # ""}}

ConfiguredInit ==
    /\ rows = {}
    /\ inflight = EmptyBag
    /\ last = EmptyTrace
    /\ lastSrc = [on \in OrderNumbers |-> ""]
    /\ call \in ConfiguredCalls
    /\ held = << >>

CreateCheckoutSessionWith ==
    /\ call.op = "create_checkout_session"
    /\ call.result = NotCalled
    /\ call' = [call EXCEPT
                  !.result = create_checkout_session(call.settings, call.items,
                                                     call.idempotency_key, call.customer,
                                                     call.catalog, call.gateway)]
    /\ UNCHANGED <<rows, inflight, last, lastSrc, held>>

ConfiguredNext == CreateCheckoutSessionWith

ConfiguredSpec == ConfiguredInit /\ [][ConfiguredNext]_vars

\* ---- C25
\* C25: with no secret key configured, create_checkout_session raises a
\* configuration error, surfaced as 500, whatever the cart, key and customer; the
\* catalog is not read and no request is sent to the payment gateway.
C25_NoSecretKeyNoCalls ==
    call.op = "create_checkout_session" /\ call.result # NotCalled
        /\ call.settings.stripe_secret_key = ""
        => /\ call.result.tag = "raise"
           /\ call.result.exc.kind = "Configuration"
           /\ StatusOf(call.result) = 500
           /\ ~call.result.catalog_read
           /\ call.result.requests = << >>
           /\ call.result.session_id = ""

\* A cart that would have been priced and sent was refused for the missing key.
C25_Witness ==
    /\ call.op = "create_checkout_session"
    /\ call.result # NotCalled
    /\ call.settings.stripe_secret_key = ""
    /\ call.items = <<CheckoutCartItem(ProductP1, 2, Size38)>>
    /\ call.catalog = CatalogTable(Dec(120000))
    /\ call.gateway.tag = "session"
    /\ call.result.exc.kind = "Configuration"

\* ------------------------------------------- credentials at the endpoints
\* Authorization headers: those above, an empty value, a blank, other
\* spellings of the scheme, a scheme without token and a token without scheme.
CredentialHeaders ==
    AuthorizationHeaders
    \cup {HeaderWord(""), Header("", ""), Header("bearer", "access-token"),
          Header("BEARER", "access-token"), Header("Bearer", " "), HeaderWord("Bearer"),
          HeaderWord("access-token")}

\* Replies of the identity service, with a refusal by 403, a server error and
\* a user payload without id.
CredentialReplies ==
    IdentityReplies
    \cup {IdentityReply(403, NoneStr), IdentityReply(500, NoneStr), IdentityReply(200, NoneStr)}

CredentialCreateCalls ==
    {[op |-> "checkout_session_create", authorization |-> h, identity |-> i,
      idempotency_key |-> NoneSeq, items |-> <<CheckoutCartItem(ProductP1, 2, Size38)>>,
      catalog |-> CatalogTable(Dec(120000)), gateway |-> g, result |-> NotCalled] :
        h \in CredentialHeaders, i \in CredentialReplies,
        g \in {CreatedSession("https://checkout.stripe.test/pay"), GatewayError("connection")}}

CredentialSyncCalls ==
    UNION {{[op |-> "checkout_session_sync", authorization |-> h, identity |-> i,
             session_id |-> sid, now |-> n, reply |-> r, result |-> NotCalled] :
               h \in CredentialHeaders, i \in CredentialReplies, n \in 1..MaxNow,
               r \in GatewayReplies(sid)} :
             sid \in {SessionId(k) : k \in SessionKeys} \cup {UnknownSessionId}}

CredentialInit ==
    /\ rows = {}
    /\ inflight = EmptyBag
    /\ last = EmptyTrace
    /\ lastSrc = [on \in OrderNumbers |-> ""]
    /\ call \in CredentialCreateCalls \cup CredentialSyncCalls
    /\ held = << >>

\* checkout_session_sync up to its response or to the storage write.
SyncCheckoutSession ==
    /\ call.op = "checkout_session_sync"
    /\ call.result = NotCalled
    /\ call' = [call EXCEPT !.result = checkout_session_sync(call, call.reply)]
    /\ UNCHANGED <<rows, inflight, last, lastSrc, held>>

CredentialNext ==
    \/ CheckoutSessionCreate
    \/ SyncCheckoutSession

CredentialSpec == CredentialInit /\ [][CredentialNext]_vars

\* ---- C26
CreateAnswered == call.op = "checkout_session_create" /\ call.result # NotCalled
SyncAnswered == call.op = "checkout_session_sync" /\ call.result # NotCalled

\* The header carries a non-empty Bearer token.
IsBearerToken(h) ==
    /\ h.present
    /\ h.scheme \in {"Bearer", "bearer", "BEARER"}
    /\ h.sep = " "
    /\ h.token \notin {"", " "}

EmptyValue(h) == h.present /\ h.scheme = "" /\ h.sep = "" /\ h.token = ""

\* The identity service vouches for a user.
Vouched(reply) == reply.status = 200 /\ reply.id \in {UserU, UserV}

\* The request was answered 401 by the boundary layer before its handler ran.
RejectedUnrun ==
    \/ /\ CreateAnswered
       /\ call.result.tag = "raise"
       /\ call.result.exc = HttpError(401)
       /\ ~call.result.catalog_read
       /\ call.result.requests = << >>
    \/ /\ SyncAnswered
       /\ call.result.response.status = 401
       /\ call.result.response.kind = "Http"
       /\ call.result.session = ""
       /\ call.result.derived = {}

\* The handler ran with the given user id ("" / NoneStr for a guest): creation
\* sent a request attributed to that user, sync retrieved the session and
\* reconciled it with that expected user id.
RanAs(user_id) ==
    \/ /\ CreateAnswered
       /\ Len(call.result.requests) = 1
       /\ call.result.requests[1].client_reference_id = user_id
       /\ call.result.requests[1].metadata.user_id = user_id
    \/ /\ SyncAnswered
       /\ call.result.response.kind # "Http"
       /\ call.reply.tag = "session" =>
             /\ call.result.session # ""
             /\ call.result.expected = _normalize_text(user_id)
       /\ call.reply.tag = "session" /\ call.reply.session.payment_status = "paid"
             /\ call.result.derived # {} /\ user_id # NoneStr
          => \/ TheOrder(call.result).user_id = user_id
             \/ call.result.response.status = 401

\* C26 as stated: no Authorization header, guest; a header that is not a
\* non-empty Bearer token, 401 and the handler does not run; a valid token, the
\* resolved user id is passed on.
C26_CredentialDecidesPath ==
    CreateAnswered \/ SyncAnswered =>
        /\ ~call.authorization.present => RanAs(NoneStr)
        /\ call.authorization.present /\ ~IsBearerToken(call.authorization) => RejectedUnrun
        /\ IsBearerToken(call.authorization) /\ Vouched(call.identity)
             => RanAs(call.identity.id)

\* C26 amended: an Authorization header with an empty value counts as no
\* header.
C26_CredentialDecidesPathAmended ==
    CreateAnswered \/ SyncAnswered =>
        /\ ~call.authorization.present \/ EmptyValue(call.authorization) => RanAs(NoneStr)
        /\ /\ call.authorization.present
           /\ ~EmptyValue(call.authorization)
           /\ ~IsBearerToken(call.authorization)
           => RejectedUnrun
        /\ IsBearerToken(call.authorization) /\ Vouched(call.identity)
             => RanAs(call.identity.id)

\* A submission with an empty Authorization header created a guest session.
C26_Witness ==
    /\ CreateAnswered
    /\ EmptyValue(call.authorization)
    /\ call.result.tag = "return"
    /\ call.result.session_id # ""
    /\ call.result.requests[1].client_reference_id = NoneStr

\* ---- C27
\* The kind and status a failed customer resolution is surfaced with.
Refusal(reply) ==
    IF reply.status = 0 THEN [kind |-> "Retryable", status |-> 503]
    ELSE IF reply.status \in {401, 403} THEN [kind |-> "Auth", status |-> 401]
    ELSE [kind |-> "Api", status |-> 502]

\* C27: with a bearer credential, when the identity service answers 401 or 403,
\* cannot be reached, or vouches for no valid UUID, the request fails with the
\* authentication error (401), the retryable error (503) or an upstream error
\* (502); creation reads no catalog and sends nothing to the gateway, sync
\* retrieves no session and derives no order to write.
C27_FailedResolutionIsNoGuest ==
    (CreateAnswered \/ SyncAnswered) /\ IsBearerToken(call.authorization)
        /\ (call.identity.status \in {0, 401, 403}
            \/ (call.identity.status = 200 /\ ~Vouched(call.identity)))
        => /\ CreateAnswered =>
                /\ call.result.tag = "raise"
                /\ call.result.exc.kind = Refusal(call.identity).kind
                /\ StatusOf(call.result) = Refusal(call.identity).status
                /\ ~call.result.catalog_read
                /\ call.result.requests = << >>
                /\ call.result.session_id = ""
           /\ SyncAnswered =>
                /\ call.result.response.kind = Refusal(call.identity).kind
                /\ call.result.response.status = Refusal(call.identity).status
                /\ call.result.session = ""
                /\ call.result.derived = {}
                /\ ~call.result.wrote

\* A sync of the guest's paid session with a credential the identity service
\* refused by 403 was answered 401.
C27_Witness ==
    /\ SyncAnswered
    /\ IsBearerToken(call.authorization)
    /\ call.identity.status = 403
    /\ call.session_id = SessionId("B")
    /\ call.reply.tag = "session"
    /\ call.reply.session.payment_status = "paid"
    /\ call.result.response.status = 401

\* ---- C28
\* A text without surrounding blanks.
Trimmed(id) ==
    IF \A i \in DOMAIN id : id[i] = " " THEN << >>
    ELSE SubSeq(id,
                CHOOSE i \in DOMAIN id : id[i] # " " /\ \A j \in 1..(i - 1) : id[j] = " ",
                CHOOSE i \in DOMAIN id : id[i] # " " /\ \A j \in (i + 1)..Len(id) : id[j] = " ")

\* The id in upper case without the characters that are not A-Z or 0-9.
Cleaned(id) ==
    SelectSeq([i \in DOMAIN Trimmed(id) |-> UpperChar(Trimmed(id)[i])],
              LAMBDA c : c \in Range(UpperLetters) \cup Digits)

\* "MM-" and the last 12 characters of the cleaned id, or all of them.
NumberFor(id) ==
    LET c == Cleaned(id)
        n == IF Len(c) < 12 THEN Len(c) ELSE 12
    IN  <<"M", "M", "-">> \o [i \in 1..n |-> c[Len(c) - n + i]]

\* The first non-blank candidate of the attribution is a valid UUID.
Attributable(c) ==
    \E i \in 1..3 :
        /\ Resolves(Candidates(c)[i])
        /\ \A j \in 1..(i - 1) : _normalize_text(Candidates(c)[j]) = ""

\* What sync and the webhook handler make of the call's paid session.
SyncOfCall ==
    SyncPaidOutcome(Settings("whsec_test"), call.session, _normalize_text(call.fallback_user_id),
                    call.now, Outcome("return"))
WebhookOfCall == HandlePaidOutcome(Settings("whsec_test"), call.session, call.now, Outcome("return"))

\* C28: a derived order has the number "MM-" followed by the last 12 characters,
\* or all if fewer, of the session id in upper case without the characters that
\* are not A-Z or 0-9; "cs_test_AbC123!!" gives "MM-CSTESTABC123".  When nothing
\* remains of the id of an attributable session, the derivation raises a
\* validation error, sync and the webhook handler raise it too and hand no order
\* to storage, and no row is written.
C28_OrderNumberFromSessionId ==
    Derived =>
        /\ call.result.tag = "order" =>
             /\ call.result.order.order_number = NumberFor(call.session.id)
             /\ Cleaned(call.session.id) # << >>
        /\ call.result.tag = "order"
             /\ call.session.id = <<"c", "s", "_", "t", "e", "s", "t", "_", "A", "b", "C", "1", "2", "3", "!", "!">>
           => call.result.order.order_number
                 = <<"M", "M", "-", "C", "S", "T", "E", "S", "T", "A", "B", "C", "1", "2", "3">>
        /\ Attributable(call) /\ Cleaned(call.session.id) = << >> =>
             /\ call.result.tag = "raise"
             /\ call.result.exc.kind = "Validation"
             /\ call.result.exc.status \in 400..499
             /\ SyncOfCall.tag = "raise"
             /\ SyncOfCall.derived = {}
             /\ WebhookOfCall.tag \in {"raise", "return"}
             /\ WebhookOfCall.derived = {}
             /\ rows = {}

\* The order of a session whose cleaned id has 22 characters was written under
\* the last 12 of them.
C28_Witness ==
    /\ Derived
    /\ Len(Cleaned(call.session.id)) = 22
    /\ \E r \in rows : r.order_number = <<"M", "M", "-", "C", "3", "D", "4", "E", "5", "F", "6", "G", "7", "H", "8">>

\* ---- C29
\* amount_total is a non-negative whole number of minor units.
WholeAmount(a) ==
    /\ a.t \in {"int", "float"}
    /\ a.t = "float" => a.integral
    /\ a.v >= 0

\* C29 as stated: a paid session whose amount_total is missing, fractional or
\* negative is rejected with a validation error and nothing is written;
\* otherwise the total is amount_total / 100 with two fractional digits.
C29_AmountValidated ==
    Derived /\ Trimmed(call.session.id) # << >> =>
        /\ ~WholeAmount(call.session.amount_total) /\ call.session.amount_total.t # "str" =>
             /\ call.result.tag = "raise"
             /\ call.result.exc.kind = "Validation"
             /\ rows = {}
        /\ WholeAmount(call.session.amount_total) /\ Cleaned(call.session.id) # << >>
             /\ Attributable(call) =>
             /\ call.result.tag = "order"
             /\ call.result.order.total_amount.hundredths \in 0..99
             /\ 100 * call.result.order.total_amount.units
                  + call.result.order.total_amount.hundredths = call.session.amount_total.v

\* C29 amended: the rejection is that of an attributable session, and of an
\* amount_total that is no number as well; a session that cannot be attributed
\* is a no-op without error whatever its amount_total.
C29_AmountValidatedAmended ==
    Derived /\ Trimmed(call.session.id) # << >> =>
        /\ ~WholeAmount(call.session.amount_total) /\ Attributable(call) =>
             /\ call.result.tag = "raise"
             /\ call.result.exc.kind = "Validation"
             /\ call.result.exc.status = 400
             /\ SyncOfCall.tag = "raise"
             /\ SyncOfCall.derived = {}
             /\ WebhookOfCall.tag # "upsert"
             /\ rows = {}
        /\ ~Attributable(call) =>
             /\ call.result.tag = "none"
             /\ SyncOfCall.tag = "return"
             /\ WebhookOfCall.tag = "return"
             /\ rows = {}
        /\ WholeAmount(call.session.amount_total) /\ Cleaned(call.session.id) # << >>
             /\ Attributable(call) =>
             /\ call.result.tag = "order"
             /\ call.result.order.total_amount.hundredths \in 0..99
             /\ 100 * call.result.order.total_amount.units
                  + call.result.order.total_amount.hundredths = call.session.amount_total.v
             /\ \A r \in rows : r.total_amount = call.result.order.total_amount

\* A session without amount_total that names no user, reconciled without a
\* fallback, was a no-op without error.
C29_Witness ==
    /\ Derived
    /\ call.session.amount_total = JNone
    /\ ~Attributable(call)
    /\ call.result.tag = "none"
    /\ SyncOfCall.tag = "return"

\* ---- C30
\* A currency code the derivation takes from the session.
WellFormedCurrency(cur) ==
    /\ Len(Trimmed(cur)) = 3
    /\ \A i \in 1..3 : Trimmed(cur)[i] \in Range(LowerLetters) \cup Range(UpperLetters)

\* The number a metadata items_count stands for, 0 if it stands for none.
CountRead(ic) ==
    IF ic.t = "int" THEN ic.v
    ELSE IF ic.t = "str" /\ Trimmed(ic.s) # << >>
            /\ \A i \in DOMAIN Trimmed(ic.s) : Trimmed(ic.s)[i] \in Digits
    THEN CHOOSE n \in 0..999 : FormatInt(n) = Trimmed(ic.s)
    ELSE 0

\* C30: every row written has a user_id that is a syntactically valid UUID,
\* items_count >= 1 (the metadata value if it reads as a positive number, 1
\* otherwise), total_amount >= 0, a currency of three upper-case letters (the
\* session's if well-formed, EUR otherwise) and the status "En preparation".
C30_WrittenRowsWellFormed ==
    \A r \in rows :
        /\ UuidPatternMatches(Chars(r.user_id))
        /\ r.items_count >= 1
        /\ r.items_count = (IF CountRead(call.session.metadata.items_count) >= 1
                            THEN CountRead(call.session.metadata.items_count) ELSE 1)
        /\ r.total_amount.units >= 0
        /\ r.total_amount.hundredths \in 0..99
        /\ Len(r.currency) = 3
        /\ \A i \in 1..3 : r.currency[i] \in Range(UpperLetters)
        /\ r.currency = (IF WellFormedCurrency(call.session.currency)
                         THEN [i \in 1..3 |-> UpperChar(Trimmed(call.session.currency)[i])]
                         ELSE <<"E", "U", "R">>)
        /\ r.status = "En preparation"

\* A row was written for a session with items_count "0" and the currency
\* "u5d": one item, EUR.
C30_Witness ==
    /\ Derived
    /\ call.session.metadata.items_count = JStr(<<"0">>)
    /\ call.session.currency = <<"u", "5", "d">>
    /\ \E r \in rows : r.items_count = 1 /\ r.currency = <<"E", "U", "R">>


\* ------------------------------------------------------------------- C31
\* The last request was a webhook delivery that has been answered.
WebhookAnswered == last.endpoint = "webhook" /\ last.response # NoResponse

Acknowledged == WebhookAnswered /\ last.response.received

\* The handler returned without deriving an order: the event is of another
\* type, or a completed event of a session not paid, or a session that names
\* no valid user.
DeliberateNoOp ==
    \/ last.etype \notin SettlementTypes
    \/ /\ last.session # ""
       /\ \/ last.etype = CompletedType /\ last.payment_status # "paid"
          \/ ~SelfAttributed(last.session)

RowWritten(t) ==
    /\ t.wrote
    /\ \E r \in rows : r.order_number = TheOrder(t).order_number

SyncAnsweredRecorded ==
    /\ last.endpoint = "sync"
    /\ last.response.order_recorded

\* C33: a sync answers order_recorded = true with an order number only after
\* the write returned the row, which is then in the table under that number;
\* a sync whose write failed or returned no row answers an error instead.
C33_RecordedMeansRowExists ==
    /\ SyncAnsweredRecorded =>
         /\ RowWritten(last)
         /\ last.response.order_number = TheOrder(last).order_number
         /\ \E r \in rows : Columns(r) = TheOrder(last)
    /\ (last.endpoint = "sync" /\ last.derived # {} /\ ~last.wrote
          /\ last.response # NoResponse) =>
         /\ ~last.response.order_recorded
         /\ last.response.status >= 400

\* A sync that wrote the order and answered with its number.
C33_Witness ==
    /\ SyncAnsweredRecorded
    /\ last.wrote
    /\ last.response.order_number = OrderNumberOf(last.session)


\* ------------------------------------------------------------------- C34
\* The last request, for a session whose row is in the table, wrote nothing.
LaterEventWroteNothing ==
    /\ last.session # ""
    /\ RowsOf(last.session) # {}
    /\ ~last.wrote
    /\ last.response # NoResponse

\* C34: a row of the table stays in it, under its id and order number, through
\* every later sync, delivery and write; a request that did not write leaves
\* the table as it was.
C34_RowsAreKept ==
    [][/\ \A r \in rows :
            \E r2 \in rows' : r2.id = r.id /\ r2.order_number = r.order_number
       /\ (last' # last /\ ~last'.wrote) => rows' = rows]_vars

\* A completed event of a session not paid arrived after the row of the
\* session was written, and the row is still there.
C34_Witness ==
    /\ LaterEventWroteNothing
    /\ CompletedUnpaid

\* ------------------------------------------------------------------- C37
\* C37: a write onto the row an earlier reconciliation of the same session
\* wrote leaves the user_id of the row as it was.
C37_UserIdNeverChanged ==
    RewroteOwnRow =>
        \A r \in last.replaced : r.user_id = TheOrder(last).user_id


\* ------------------------------------------------------------------- C39
\* The requests of a creation call that returned a session.
SentRequests ==
    IF /\ call.op \in {"create_checkout_session", "checkout_session_create"}
       /\ call.result # NotCalled
       /\ call.result.tag = "return"
    THEN call.result.requests
    ELSE << >>

\* C39: no line item of a created session has a quantity above the per-line
\* limit, merged lines included.
C39_SentQuantityWithinLimit ==
    \A i \in DOMAIN SentRequests :
        \A j \in DOMAIN SentRequests[i].line_items :
            SentRequests[i].line_items[j].quantity <= MaxQuantity


\* ------------------------------------------------ orders being fulfilled
\* A status the order-handling side gives a row after the first write.
DeliveredStatus == "Livree"

\* The order-handling side advances the status of a recorded order.
AdvanceStatus ==
    /\ \E r \in rows :
         /\ r.status = InitialStatus
         /\ rows' = (rows \ {r}) \cup {[r EXCEPT !.status = DeliveredStatus]}
    /\ UNCHANGED <<inflight, last, lastSrc, call, held>>

FulfilmentNext ==
    \/ BuildConfirmedOrder
    \/ UpsertDerivedOrder
    \/ AdvanceStatus

FulfilmentSpec == DeriveInit /\ [][FulfilmentNext]_vars

\* ------------------------------------------------------------------- C38
\* C38: a write onto a row whose status was advanced past the initial value
\* leaves the status of the row as it was.
C38_AdvancedStatusIsKept ==
    [][\A r \in rows :
          r.status # InitialStatus =>
              \A r2 \in rows' : r2.order_number = r.order_number => r2.status = r.status]_vars


\* --------------------------------------------- from the cart to the order
\* The session the payment gateway holds for a creation request, once paid:
\* client_reference_id and metadata as sent, the total of the line items.
RECURSIVE LinesTotal(_)
LinesTotal(line_items) ==
    IF line_items = << >> THEN 0
    ELSE Head(line_items).unit_amount * Head(line_items).quantity
         + LinesTotal(Tail(line_items))

GatewaySessionOf(request) ==
    [id |-> SessionId("A"),
     client_reference_id |-> request.client_reference_id,
     metadata |-> request.metadata,
     amount_total |-> JInt(LinesTotal(request.line_items)),
     currency |-> request.line_items[1].currency,
     created |-> JInt(1),
     payment_status |-> "paid"]

CartCustomers == {NoCustomer, CheckoutCustomerReference(UserU)}

\* Lines of the carts: lines that merge (same product and size, also after
\* trimming the size), a line at the quantity limit, a product that is not
\* active and a quantity that is refused.
OrderedLines ==
    {CheckoutCartItem(ProductP1, q, Size38) : q \in {1, 2}}
    \cup {CheckoutCartItem(ProductP1, 1, Size38 \o <<" ">>),
          CheckoutCartItem(ProductP2, MaxQuantity, NoneSeq),
          CheckoutCartItem(ProductP9, 1, NoneSeq),
          CheckoutCartItem(ProductP1, 0, NoneSeq)}

CartCalls ==
    {[op |-> "cart_to_order", items |-> c, customer |-> cu, result |-> NotCalled] :
        c \in SeqsUpTo(OrderedLines, MaxLines), cu \in CartCustomers}

CartInit ==
    /\ rows = {}
    /\ inflight = EmptyBag
    /\ last = EmptyTrace
    /\ lastSrc = [on \in OrderNumbers |-> ""]
    /\ call \in CartCalls
    /\ held = << >>

\* create_checkout_session for the cart; the gateway keeps the session.
CreateSessionFromCart ==
    /\ call.op = "cart_to_order"
    /\ call.result = NotCalled
    /\ LET result == create_checkout_session(
                         Settings("whsec_test"), call.items, NoneSeq, call.customer,
                         CatalogTable(Dec(120000)),
                         CreatedSession("https://checkout.stripe.test/pay"))
       IN  /\ call' = [call EXCEPT !.result = result]
           /\ held' = IF result.requests = << >> THEN held
                      ELSE Append(held, GatewaySessionOf(result.requests[1]))
    /\ UNCHANGED <<rows, inflight, last, lastSrc>>

\* A sync (with the resolved customer as fallback) or a webhook delivery (with
\* none) reconciles the session: _build_confirmed_order, then the upsert.
ReconcileCreatedSession ==
    /\ held # << >>
    /\ \E fallback \in FallbackUserIds, now \in 1..MaxNow :
         LET built == _build_confirmed_order(Settings("whsec_test"), held[1], fallback, now)
         IN  /\ built.tag = "order"
             /\ rows' = MergeDuplicates(rows, built.order)
    /\ UNCHANGED <<inflight, last, lastSrc, call, held>>

CartNext ==
    \/ CreateSessionFromCart
    \/ ReconcileCreatedSession

CartSpec == CartInit /\ [][CartNext]_vars

\* ------------------------------------------------------------------- C36
\* The quantities of the first n lines of a cart, added up.
RECURSIVE QuantityTotal(_, _)
QuantityTotal(items, n) ==
    IF n = 0 THEN 0 ELSE items[n].quantity + QuantityTotal(items, n - 1)

\* C36: the items_count of an order recorded by reconciling a session that
\* create_checkout_session made from a cart is the sum of the quantities of
\* the lines of the cart.
C36_ItemsCountIsCartTotal ==
    \A r \in rows : r.items_count = QuantityTotal(call.items, Len(call.items))

\* An order recorded for a cart of three lines, two of which were merged into
\* one line item of twice the per-line limit.
C36_Witness ==
    /\ call.op = "cart_to_order"
    /\ Len(call.items) = 3
    /\ \E r \in rows : r.items_count = 2 * MaxQuantity + 1


\* ------------------------------------------ redelivery until acknowledged
\* The settlement deliveries and the syncs of the paid session A that reach
\* the write, and the syncs that fail at the gateway with a transport error.
PaidRequests ==
    {t \in SyncTraces \cup WebhookTraces :
        Pending(t) /\ t.session = "A" /\ t.payment_status = "paid"}

GatewayFailures == {t \in SyncTraces : t.response.kind = "Retryable"}

\* The sender saw a success response and stops sending.
Stopped == last.response.status = 200

\* The gateway redelivers the settlement event, or the client retries the
\* sync, as long as no success response came back.
RedeliverOrRetry ==
    /\ ~Stopped
    /\ \E t \in PaidRequests : Admit(t)
    /\ UNCHANGED <<rows, lastSrc, call, held>>

\* A retried sync whose retrieval of the session fails in transport.
RetrieveFailsTransiently ==
    /\ ~Stopped
    /\ \E t \in GatewayFailures : Admit(t)
    /\ UNCHANGED <<rows, lastSrc, call, held>>

\* The write of a request in flight succeeds.
StorageSucceeds == \E t \in BagToSet(inflight) : Upsert(t, "written")

RedeliverNext ==
    \/ RedeliverOrRetry
    \/ RetrieveFailsTransiently
    \/ UpsertConfirmedOrder

\* The sender keeps sending while it may, and the storage call of a request in
\* flight succeeds at some attempt.
RedeliverSpec ==
    /\ Init
    /\ [][RedeliverNext]_vars
    /\ WF_vars(RedeliverOrRetry)
    /\ SF_vars(StorageSucceeds)

\* ------------------------------------------------------------------- C35
\* The last request failed in transport, at the gateway or at storage.
FailedTransiently ==
    /\ last.response.kind = "Retryable"

\* C35: with redelivery or retry until a success response and a storage call
\* that succeeds at some attempt, the row of the paid session is eventually
\* in the table; a request that failed in transport is answered 503, without
\* acknowledgement and without order_recorded, and writes nothing.
C35_EventuallyRecorded ==
    /\ <>(RowsOf("A") # {})
    /\ [](FailedTransiently =>
            /\ last.response.status = 503
            /\ ~last.response.received
            /\ ~last.response.order_recorded
            /\ ~last.wrote)

\* The row is in the table although a delivery of the event was answered 503.
C35_Witness ==
    /\ RowsOf("A") # {}
    /\ last.endpoint = "webhook"
    /\ last.derived # {}
    /\ last.response.status = 503


\* ------------------------------------------------------ Google OAuth flow
\* The value of the mm_google_oauth cookie: the URL-safe base64 text of a JSON
\* object with its keys, or a text that is no base64, no JSON or no object;
\* a request can also come without the cookie or with an empty one.
CookieOf(fields) == [kind |-> "b64_json_object", fields |-> fields]
NoCookie == [kind |-> "absent"]
EmptyCookie == [kind |-> "empty"]
UndecodableCookies ==
    {[kind |-> "not_base64"], [kind |-> "not_json"], [kind |-> "json_list"],
     CookieOf([code_verifier |-> "verifier-abc"])}

_encode_google_oauth_cookie(state, code_verifier) ==
    CookieOf([state |-> state, code_verifier |-> code_verifier])

\* _decode_google_oauth_cookie: the pair, or the HTTP error 400.
_decode_google_oauth_cookie(cookie_value) ==
    IF /\ cookie_value.kind = "b64_json_object"
       /\ {"state", "code_verifier"} \subseteq DOMAIN cookie_value.fields
    THEN [tag |-> "pair", state |-> cookie_value.fields.state,
          code_verifier |-> cookie_value.fields.code_verifier]
    ELSE [tag |-> "raise", status |-> 400]

\* Replies of the identity service to exchange_code_for_session.
ExchangeReplies ==
    {[tag |-> "session"], [tag |-> "error", kind |-> "retryable", status |-> 0],
     [tag |-> "error", kind |-> "auth", status |-> 400],
     [tag |-> "error", kind |-> "auth", status |-> 0],
     [tag |-> "error", kind |-> "other", status |-> 0]}

\* _raise_auth_error for what exchange_google_code raised.
_raise_auth_error(exc) ==
    IF exc.kind = "retryable" THEN 503
    ELSE IF exc.kind = "auth"
    THEN (IF 400 <= exc.status /\ exc.status < 600 THEN exc.status ELSE 500)
    ELSE 500

\* What a callback came to: the status, the exchanges it asked the identity
\* service for, and whether the response clears the cookie.
CallbackResult(status, exchanged, clears) ==
    [status |-> status, exchanged |-> exchanged, clears |-> clears]

\* Truthiness of an optional query parameter.
Given(text) == text # NoneStr /\ text # ""

GoogleCallbackAnyState(request, reply) ==
    LET decoded == _decode_google_oauth_cookie(request.cookie)
        exchange == [auth_code |-> request.code, code_verifier |-> decoded.code_verifier]
    IN  IF Given(request.error) THEN CallbackResult(400, << >>, FALSE)
        ELSE IF ~Given(request.code) THEN CallbackResult(400, << >>, FALSE)
        ELSE IF request.cookie.kind \in {"absent", "empty"}
        THEN CallbackResult(400, << >>, FALSE)
        ELSE IF decoded.tag = "raise" THEN CallbackResult(decoded.status, << >>, FALSE)
        ELSE IF reply.tag = "error"
        THEN CallbackResult(_raise_auth_error(reply), <<exchange>>, FALSE)
        ELSE CallbackResult(200, <<exchange>>, TRUE)

google_callback(request, reply) ==
    LET decoded == _decode_google_oauth_cookie(request.cookie)
        exchange == [auth_code |-> request.code, code_verifier |-> decoded.code_verifier]
    IN  IF Given(request.error) THEN CallbackResult(400, << >>, FALSE)
        ELSE IF ~Given(request.code) THEN CallbackResult(400, << >>, FALSE)
        ELSE IF ~Given(request.state) THEN CallbackResult(400, << >>, FALSE)
        ELSE IF request.cookie.kind \in {"absent", "empty"}
        THEN CallbackResult(400, << >>, FALSE)
        ELSE IF decoded.tag = "raise" THEN CallbackResult(decoded.status, << >>, FALSE)
        ELSE IF request.state # decoded.state THEN CallbackResult(400, << >>, FALSE)
        ELSE IF reply.tag = "error"
        THEN CallbackResult(_raise_auth_error(reply), <<exchange>>, FALSE)
        ELSE CallbackResult(200, <<exchange>>, TRUE)

\* secrets.token_urlsafe(32) and the PKCE verifier of the identity client; the
\* client may have stored no verifier.
OAuthStates == {"state-abc", "state-original"}
CodeVerifiers == {"", "verifier-abc", "verifier-original"}

QueryTexts == {NoneStr, ""}

\* A cookie of the right form that no start step set.
ForgedCookie == _encode_google_oauth_cookie("state-different", "verifier-forged")

\* google_start: held is the flow the start step began, with the cookie the
\* browser keeps for the callback path.
GoogleStart ==
    /\ \E state \in OAuthStates, code_verifier \in CodeVerifiers, redirect \in BOOLEAN :
         IF code_verifier = ""
         THEN /\ call' = [op |-> "google_start", status |-> 500]
              /\ UNCHANGED held
         ELSE /\ call' = [op |-> "google_start",
                          status |-> IF redirect THEN 307 ELSE 200]
              /\ held' = <<[state |-> state, code_verifier |-> code_verifier,
                             cookie |-> _encode_google_oauth_cookie(state, code_verifier)]>>
    /\ UNCHANGED <<rows, inflight, last, lastSrc>>

\* google_callback, with the cookie of the browser or with any other one.
GoogleCallback ==
    /\ \E code \in QueryTexts \cup {"auth-code-1"},
          state \in QueryTexts \cup OAuthStates \cup {"state-different"},
          error \in {NoneStr, "access_denied"},
          cookie \in {held[i].cookie : i \in DOMAIN held}
                     \cup {NoCookie, EmptyCookie, ForgedCookie} \cup UndecodableCookies,
          reply \in ExchangeReplies :
         LET request == [code |-> code, state |-> state, error |-> error,
                         cookie |-> cookie]
             result == google_callback(request, reply)
         IN  /\ call' = [op |-> "google_callback", request |-> request,
                         jar |-> held, result |-> result]
             /\ held' = IF result.clears THEN << >> ELSE held
    /\ UNCHANGED <<rows, inflight, last, lastSrc>>

OAuthNext ==
    \/ GoogleStart
    \/ GoogleCallback

OAuthSpec == Init /\ [][OAuthNext]_vars

\* ------------------------------------------------------------------- C32
CallbackAnswered == call.op = "google_callback"

Exchanged == CallbackAnswered /\ call.result.exchanged # << >>

\* The request carried the cookie the start step had set.
CookieOfStart ==
    /\ call.jar # << >>
    /\ call.request.cookie = call.jar[1].cookie

\* The request lacks the cookie, the code or the state, or its state is not
\* the one of its cookie.
Unmatched ==
    \/ call.request.cookie.kind \in {"absent", "empty"}
    \/ ~Given(call.request.code)
    \/ ~Given(call.request.state)
    \/ /\ call.request.cookie.kind = "b64_json_object"
       /\ "state" \in DOMAIN call.request.cookie.fields
       /\ call.request.cookie.fields.state # call.request.state

====
